---- MODULE Spec2Model ----
(***************************************************************************)
(* Koi appraisal back end: the size engine (reference-coin calibration),   *)
(* the reference-class lookup and the colour engine, as state machines.    *)
(*                                                                         *)
(* Conventions.                                                            *)
(*  - A Python str is a tuple of one-character strings, so that            *)
(*    str.lower() is computed character by character.                      *)
(*  - A Python float that the code obtains by dividing or multiplying      *)
(*    integers and table entries is an exact rational <<n, d>> (d > 0, in  *)
(*    lowest terms); np.sqrt and np.std round down to a fixed number of    *)
(*    decimals (SizeScale, StdScale), and a score is a fixed-point number  *)
(*    of ScoreScale-ths.                                                   *)
(*  - A call returns [kind |-> "ok", val |-> v] or raises: kind is then    *)
(*    the name of the Python exception and val its message.                *)
(***************************************************************************)
EXTENDS Integers, Sequences, FiniteSets, TLC

VARIABLES
  call,        \* size engine / lookup: the operation invoked and its arguments
  ret,         \* size engine / lookup: what the call returned or raised
  thresholds,  \* ColorAnalyzer.thresholds, the calibration table in use
  colorIn,     \* colour engine: the image and mask handed to analyze_colors
  colorOut,    \* colour engine: what analyze_colors returned
  symIn,       \* symmetry engine: the image and mask handed to analyze_symmetry
  symOut,      \* symmetry engine: what analyze_symmetry returned
  priceIn,     \* price predictor: the metrics of one fish
  features,    \* the feature vectors the predictor and the trainer built
  priceOut,    \* price predictor: what predict or the endpoint's step gave
  calibration, \* the calibration source on disk
  analyzer,    \* the ColorAnalyzer's table once it is constructed
  colorStep,   \* what the colour analysis or the endpoint's step gave
  global,      \* the module globals and model attributes: an instance or None
  constructed, \* how many instances of each shared object were constructed
  caller,      \* each concurrent caller's place in a getter
  shared,      \* recalibration: the analyzer's self.thresholds
  analysis,    \* recalibration: the analysis under way and the masks it made
  saver,       \* recalibration: the save_thresholds call under way
  given,       \* call sequences: the buffers as the caller filled them
  buffers,     \* call sequences: the buffers as the calls left them
  outcome,     \* call sequences: the last result, and each engine's first
  appraiseIn,  \* the endpoint: the request
  appraiseOut  \* the endpoint: the response and the calls made for it

sizeVars == <<call, ret>>

colorVars == <<thresholds, colorIn, colorOut>>

symVars == <<symIn, symOut>>

priceVars == <<priceIn, features, priceOut>>

\* the variables of the services behind the engines
calibVars == <<calibration, analyzer, colorStep>>

lazyVars == <<global, constructed, caller>>

recalVars == <<shared, analysis, saver>>

appraiseVars == <<appraiseIn, appraiseOut>>

restVars == <<priceVars, calibVars, lazyVars, recalVars, appraiseVars>>

sessionVars == <<given, buffers, outcome>>

vars == <<sizeVars, colorVars, symVars, restVars, sessionVars>>

\* what a call of the size engine, of the colour engine, of the symmetry
\* engine leaves alone
notSizeVars == <<colorVars, symVars, restVars, sessionVars>>

notColorVars == <<sizeVars, symVars, restVars, sessionVars>>

notSymVars == <<sizeVars, colorVars, restVars, sessionVars>>

----------------------------------------------------------------------------
(* Bounds of the model.                                                    *)

\* fish masks of 0..MaxSmallFish pixels, and the mask of the worked example
MaxSmallFish == 3
ScenarioFishPixels == 50000
\* coin boxes are measured in half pixels; the example coin is 100 px wide
ScenarioDiameterPx == 100
\* an image is at most MaxRuns runs of pixels of one colour
MaxRuns == 2
\* Canny reports at most MaxEdges edge pixels
MaxEdges == 1
\* re-casings of a label upper-case any subset of its first MaxCasePos places
MaxCasePos == 2

\* the widest margin between a large fish and the border of its image
MaxInset == 1

----------------------------------------------------------------------------
(* Arithmetic.                                                             *)

Abs(x) == IF x < 0 THEN -x ELSE x

Min(a, b) == IF a <= b THEN a ELSE b

Max(a, b) == IF a >= b THEN a ELSE b

RECURSIVE GCD(_, _)
GCD(a, b) == IF b = 0 THEN a ELSE GCD(b, a % b)

\* the rational n/d in lowest terms with a positive denominator (d # 0)
Rat(n, d) ==
  LET g == GCD(Abs(n), Abs(d))
      s == IF d < 0 THEN -1 ELSE 1
  IN  <<(s * n) \div g, (s * d) \div g>>

RatMul(x, y) ==
  LET g1 == GCD(Abs(x[1]), y[2])
      g2 == GCD(Abs(y[1]), x[2])
  IN  Rat((x[1] \div g1) * (y[1] \div g2), (x[2] \div g2) * (y[2] \div g1))

\* x / y for y # 0
RatDiv(x, y) == RatMul(x, Rat(y[2], y[1]))

RatLeq(x, y) == x[1] * y[2] <= y[1] * x[2]

RatAdd(x, y) == Rat(x[1] * y[2] + y[1] * x[2], x[2] * y[2])

\* <<q, r>> with x * k = q * d + r and 0 <= r < d, for 0 <= x < d: the
\* product is never formed, so nothing overflows while 3 * d does not
RECURSIVE MulDivQR(_, _, _)
MulDivQR(x, k, d) ==
  IF k = 0 THEN <<0, 0>>
  ELSE LET h == MulDivQR(x, k \div 2, d)
           t == 2 * h[2] + (k % 2) * x
       IN  <<2 * h[1] + (t \div d), t % d>>

\* floor(x * k / d) for x >= 0, k >= 0, d > 0
MulDiv(x, k, d) == (x \div d) * k + MulDivQR(x % d, k, d)[1]

\* floor(sqrt(n)) for n >= 0, by bisection on lo <= sqrt(n) < hi
RECURSIVE ISqrtIn(_, _, _)
ISqrtIn(n, lo, hi) ==
  IF hi - lo <= 1 THEN lo
  ELSE LET mid == (lo + hi) \div 2
       IN  IF mid * mid <= n THEN ISqrtIn(n, mid, hi) ELSE ISqrtIn(n, lo, mid)

ISqrt(n) == ISqrtIn(n, 0, Min(n, 46340) + 1)

----------------------------------------------------------------------------
(* Results of a call.                                                      *)

\* classes: the valid classes an unknown-class error lists ({} otherwise)
Ok(v) == [kind |-> "ok", val |-> v, classes |-> {}]

Raise(exc, msg) == [kind |-> exc, val |-> msg, classes |-> {}]

NoResult == [kind |-> "none", val |-> "none", classes |-> {}]

----------------------------------------------------------------------------
(* app/config.py: the coin tables and the reference-class lookup.          *)

COIN_SIZES ==
    (<<"1","p","e","s","o","_","n","e","w">> :>
        [diameter_mm |-> Rat(23, 1), diameter_cm |-> Rat(23, 10)])
    @@ (<<"1","p","e","s","o","_","o","l","d">> :>
        [diameter_mm |-> Rat(24, 1), diameter_cm |-> Rat(24, 10)])
    @@ (<<"5","p","e","s","o","_","n","e","w">> :>
        [diameter_mm |-> Rat(25, 1), diameter_cm |-> Rat(25, 10)])
    @@ (<<"5","p","e","s","o","_","o","l","d">> :>
        [diameter_mm |-> Rat(27, 1), diameter_cm |-> Rat(27, 10)])
    @@ (<<"1","0","p","e","s","o","_","n","e","w">> :>
        [diameter_mm |-> Rat(27, 1), diameter_cm |-> Rat(27, 10)])
    @@ (<<"1","0","p","e","s","o","_","o","l","d">> :>
        [diameter_mm |-> Rat(27, 1), diameter_cm |-> Rat(27, 10)])
    @@ (<<"2","0","p","e","s","o">> :>
        [diameter_mm |-> Rat(30, 1), diameter_cm |-> Rat(30, 10)])

COIN_CLASS_MAP ==
    (<<"1"," ","p","e","s","o"," ","n","e","w"," ","f","r","o","n","t">> :> <<"1","p","e","s","o","_","n","e","w">>)
    @@ (<<"1"," ","p","e","s","o"," ","n","e","w"," ","b","a","c","k">> :> <<"1","p","e","s","o","_","n","e","w">>)
    @@ (<<"1","p","e","s","o"," ","n","e","w"," ","f","r","o","n","t">> :> <<"1","p","e","s","o","_","n","e","w">>)
    @@ (<<"1","p","e","s","o"," ","n","e","w"," ","b","a","c","k">> :> <<"1","p","e","s","o","_","n","e","w">>)
    @@ (<<"1"," ","p","e","s","o"," ","o","l","d"," ","f","r","o","n","t">> :> <<"1","p","e","s","o","_","o","l","d">>)
    @@ (<<"1"," ","p","e","s","o"," ","o","l","d"," ","b","a","c","k">> :> <<"1","p","e","s","o","_","o","l","d">>)
    @@ (<<"1","p","e","s","o"," ","o","l","d"," ","f","r","o","n","t">> :> <<"1","p","e","s","o","_","o","l","d">>)
    @@ (<<"1","p","e","s","o"," ","o","l","d"," ","b","a","c","k">> :> <<"1","p","e","s","o","_","o","l","d">>)
    @@ (<<"5"," ","p","e","s","o"," ","n","e","w"," ","f","r","o","n","t">> :> <<"5","p","e","s","o","_","n","e","w">>)
    @@ (<<"5"," ","p","e","s","o"," ","n","e","w"," ","b","a","c","k">> :> <<"5","p","e","s","o","_","n","e","w">>)
    @@ (<<"5","p","e","s","o"," ","n","e","w"," ","f","r","o","n","t">> :> <<"5","p","e","s","o","_","n","e","w">>)
    @@ (<<"5","p","e","s","o"," ","n","e","w"," ","b","a","c","k">> :> <<"5","p","e","s","o","_","n","e","w">>)
    @@ (<<"5"," ","p","e","s","o"," ","o","l","d"," ","f","r","o","n","t">> :> <<"5","p","e","s","o","_","o","l","d">>)
    @@ (<<"5"," ","p","e","s","o"," ","o","l","d"," ","b","a","c","k">> :> <<"5","p","e","s","o","_","o","l","d">>)
    @@ (<<"5","p","e","s","o"," ","o","l","d"," ","f","r","o","n","t">> :> <<"5","p","e","s","o","_","o","l","d">>)
    @@ (<<"5","p","e","s","o"," ","o","l","d"," ","b","a","c","k">> :> <<"5","p","e","s","o","_","o","l","d">>)
    @@ (<<"1","0"," ","p","e","s","o"," ","n","e","w"," ","f","r","o","n","t">> :> <<"1","0","p","e","s","o","_","n","e","w">>)
    @@ (<<"1","0"," ","p","e","s","o"," ","n","e","w"," ","b","a","c","k">> :> <<"1","0","p","e","s","o","_","n","e","w">>)
    @@ (<<"1","0","p","e","s","o"," ","n","e","w"," ","f","r","o","n","t">> :> <<"1","0","p","e","s","o","_","n","e","w">>)
    @@ (<<"1","0","p","e","s","o"," ","n","e","w"," ","b","a","c","k">> :> <<"1","0","p","e","s","o","_","n","e","w">>)
    @@ (<<"1","0"," ","p","e","s","o"," ","o","l","d"," ","f","r","o","n","t">> :> <<"1","0","p","e","s","o","_","o","l","d">>)
    @@ (<<"1","0"," ","p","e","s","o"," ","o","l","d"," ","b","a","c","k">> :> <<"1","0","p","e","s","o","_","o","l","d">>)
    @@ (<<"1","0","p","e","s","o"," ","o","l","d"," ","f","r","o","n","t">> :> <<"1","0","p","e","s","o","_","o","l","d">>)
    @@ (<<"1","0","p","e","s","o"," ","o","l","d"," ","b","a","c","k">> :> <<"1","0","p","e","s","o","_","o","l","d">>)
    @@ (<<"2","0"," ","p","e","s","o"," ","f","r","o","n","t">> :> <<"2","0","p","e","s","o">>)
    @@ (<<"2","0"," ","p","e","s","o"," ","b","a","c","k">> :> <<"2","0","p","e","s","o">>)
    @@ (<<"2","0","p","e","s","o"," ","f","r","o","n","t">> :> <<"2","0","p","e","s","o">>)
    @@ (<<"2","0","p","e","s","o"," ","b","a","c","k">> :> <<"2","0","p","e","s","o">>)

UpperChars == <<"A","B","C","D","E","F","G","H","I","J","K","L","M","N","O","P","Q","R","S","T","U","V","W","X","Y","Z">>

LowerChars == <<"a","b","c","d","e","f","g","h","i","j","k","l","m","n","o","p","q","r","s","t","u","v","w","x","y","z">>

\* str.lower() and str.upper() on one ASCII character
LowerChar(c) ==
  IF \E i \in 1..26 : UpperChars[i] = c
  THEN LowerChars[CHOOSE i \in 1..26 : UpperChars[i] = c]
  ELSE c

UpperChar(c) ==
  IF \E i \in 1..26 : LowerChars[i] = c
  THEN UpperChars[CHOOSE i \in 1..26 : LowerChars[i] = c]
  ELSE c

StrLower(s) == [i \in 1..Len(s) |-> LowerChar(s[i])]

StrUpper(s) == [i \in 1..Len(s) |-> UpperChar(s[i])]

UnknownCoinClass(coin_class) ==
  [kind |-> "ValueError", val |-> "Unknown coin class",
   classes |-> DOMAIN COIN_SIZES]

\* a faulty variant: an unresolvable class falls back to the 5-peso coin
normalize_coin_class_default(coin_class) ==
  IF coin_class \in DOMAIN COIN_SIZES THEN Ok(coin_class)
  ELSE LET key == StrLower(coin_class)
       IN  IF key \in DOMAIN COIN_CLASS_MAP THEN Ok(COIN_CLASS_MAP[key])
           ELSE Ok(<<"5","p","e","s","o","_","o","l","d">>)

normalize_coin_class(coin_class) ==
  IF coin_class \in DOMAIN COIN_SIZES THEN Ok(coin_class)
  ELSE LET key == StrLower(coin_class)
       IN  IF key \in DOMAIN COIN_CLASS_MAP /\ COIN_CLASS_MAP[key] # <<>>
           THEN Ok(COIN_CLASS_MAP[key])
           ELSE UnknownCoinClass(coin_class)

get_coin_diameter_cm(coin_class) ==
  LET normalized == normalize_coin_class(coin_class)
  IN  IF normalized.kind # "ok" THEN normalized
      ELSE Ok(COIN_SIZES[normalized.val].diameter_cm)

\* a faulty variant: the centimetres are returned as millimetres
get_coin_diameter_mm_unconverted(coin_class) ==
  LET normalized == normalize_coin_class(coin_class)
  IN  IF normalized.kind # "ok" THEN normalized
      ELSE Ok(COIN_SIZES[normalized.val].diameter_cm)

get_coin_diameter_mm(coin_class) ==
  LET normalized == normalize_coin_class(coin_class)
  IN  IF normalized.kind # "ok" THEN normalized
      ELSE Ok(COIN_SIZES[normalized.val].diameter_mm)

----------------------------------------------------------------------------
(* app/services/size_detection.py: SizeDetector.                           *)

\* np.sqrt rounds down to SizeScale-ths of a centimetre
SizeScale == 100

\* np.pi, to seven decimals
PiNum == 355

PiDen == 113

PI == Rat(PiNum, PiDen)

aspect_ratio == Rat(11, 2)

\* floor(SizeScale * sqrt(x / y)) for rationals x >= 0 and y > 0
SqrtOfQuotient(x, y) ==
  ISqrt(MulDiv(x[1], SizeScale * SizeScale * y[2], x[2] * y[1]))

\* int(): truncation toward zero of h half pixels
IntOfHalves(h) == IF h >= 0 THEN h \div 2 ELSE -((-h) \div 2)

\* the segmentation collaborator: model file missing, no mask, or a mask
detect_fish_mask(fish) ==
  IF ~fish.model
  THEN Raise("FileNotFoundError", "Koi segmentation model not found")
  ELSE IF ~fish.found THEN Ok([found |-> FALSE, pixels |-> 0])
  ELSE Ok([found |-> TRUE, pixels |-> fish.pixels])

\* the coin collaborator: the best box <<x1, y1, x2, y2>> in half pixels
detect_coin(coin) ==
  IF ~coin.model
  THEN Raise("FileNotFoundError", "Coin detection model not found")
  ELSE IF ~coin.found
  THEN Ok([found |-> FALSE, class_name |-> <<>>, px |-> 0])
  ELSE LET width == coin.bbox[3] - coin.bbox[1]
           height == coin.bbox[4] - coin.bbox[2]
           diameter_pixels == Max(width, height)
       IN  Ok([found |-> TRUE, class_name |-> coin.class_name,
               px |-> IntOfHalves(diameter_pixels)])

calculate_ppc(coin_class, coin_diameter_pixels) ==
  LET coin_diameter_cm == get_coin_diameter_cm(coin_class)
  IN  IF coin_diameter_cm.kind # "ok" THEN coin_diameter_cm
      ELSE IF coin_diameter_cm.val[1] = 0
      THEN Raise("ZeroDivisionError", "float division by zero")
      ELSE Ok(RatDiv(Rat(coin_diameter_pixels, 1), coin_diameter_cm.val))

\* a faulty variant: an empty mask is refused
calculate_fish_size_refuses_empty(fish_pixel_count, ppc) ==
  IF fish_pixel_count = 0 THEN Raise("ValueError", "Empty fish mask")
  ELSE IF ppc[1] = 0
  THEN Raise("ZeroDivisionError", "float division by zero")
  ELSE Ok(SqrtOfQuotient(
            RatMul(RatMul(Rat(4, 1), aspect_ratio),
                   RatDiv(Rat(fish_pixel_count, 1), RatMul(ppc, ppc))), PI))

\* a faulty variant: the pixel count divides the squared scale
calculate_fish_size_inverted(fish_pixel_count, ppc) ==
  IF fish_pixel_count = 0
  THEN Raise("ZeroDivisionError", "float division by zero")
  ELSE Ok(SqrtOfQuotient(
            RatMul(RatMul(Rat(4, 1), aspect_ratio),
                   RatDiv(RatMul(ppc, ppc), Rat(fish_pixel_count, 1))), PI))

\* a faulty variant: the scale is not squared
calculate_fish_size_linear(fish_pixel_count, ppc) ==
  IF ppc[1] = 0
  THEN Raise("ZeroDivisionError", "float division by zero")
  ELSE Ok(SqrtOfQuotient(
            RatMul(RatMul(Rat(4, 1), aspect_ratio),
                   RatDiv(Rat(fish_pixel_count, 1), Rat(Abs(ppc[1]), ppc[2]))),
            PI))

\* fish_pixel_count >= 0: it is the sum of a 0/1 mask
calculate_fish_size(fish_pixel_count, ppc) ==
  LET ppc2 == RatMul(ppc, ppc)
  IN  IF ppc2[1] = 0
      THEN Raise("ZeroDivisionError", "float division by zero")
      ELSE LET area_cm2 == RatDiv(Rat(fish_pixel_count, 1), ppc2)
               estimated_length_cm ==
                 SqrtOfQuotient(
                   RatMul(RatMul(Rat(4, 1), aspect_ratio), area_cm2), PI)
           IN  Ok(estimated_length_cm)

detect_size(fish, coin) ==
  LET f == detect_fish_mask(fish)
  IN  IF f.kind # "ok" THEN f
      ELSE IF ~f.val.found
      THEN Raise("ValueError", "Could not detect koi fish in image")
      ELSE
      LET c == detect_coin(coin)
      IN  IF c.kind # "ok" THEN c
          ELSE IF ~c.val.found
          THEN Raise("ValueError", "Could not detect reference coin in image")
          ELSE
          LET ppc == calculate_ppc(c.val.class_name, c.val.px)
          IN  IF ppc.kind # "ok" THEN ppc
              ELSE
              LET size_cm == calculate_fish_size(f.val.pixels, ppc.val)
              IN  IF size_cm.kind # "ok" THEN size_cm
                  ELSE Ok([size_cm |-> size_cm.val,
                           coin_class |-> c.val.class_name,
                           coin_diameter_pixels |-> c.val.px,
                           fish_pixel_count |-> f.val.pixels,
                           ppc |-> ppc.val])

----------------------------------------------------------------------------
(* app/services/color_analysis.py: ColorAnalyzer.                          *)
(*                                                                         *)
(* An image is run-length encoded: run i is len[i] pixels that all have    *)
(* the HSV value hsv[i] (what cv2.cvtColor gives for them) and the mask    *)
(* value mask[i].  Every array the analyzer derives has one entry per run. *)

\* a score in [0,1] is a whole number of ScoreScale-ths
ScoreScale == 10000

\* np.std rounds down to StdScale-ths
StdScale == 100

\* the neutral score 0.5
Half == ScoreScale \div 2

\* a colour patch is scored for consistency above this many pixels
PatchPixels == 100

\* a faulty variant: black reaches up to V = 180, where white begins
DEFAULT_COLOR_THRESHOLDS_overlapping ==
  [white |-> [lower |-> <<0, 0, 180>>, upper |-> <<179, 50, 255>>],
   red   |-> [lower1 |-> <<0, 100, 100>>, upper1 |-> <<10, 255, 255>>,
              lower2 |-> <<160, 100, 100>>, upper2 |-> <<179, 255, 255>>],
   black |-> [lower |-> <<0, 0, 0>>, upper |-> <<179, 255, 180>>]]

DEFAULT_COLOR_THRESHOLDS ==
  [white |-> [lower |-> <<0, 0, 180>>, upper |-> <<179, 50, 255>>],
   red   |-> [lower1 |-> <<0, 100, 100>>, upper1 |-> <<10, 255, 255>>,
              lower2 |-> <<160, 100, 100>>, upper2 |-> <<179, 255, 255>>],
   black |-> [lower |-> <<0, 0, 0>>, upper |-> <<179, 255, 50>>]]

Runs(a) == 1..Len(a)

\* np.sum(m > 0) over an array m with one entry per run
CountNonZero(m, len) ==
  LET RECURSIVE Upto(_)
      Upto(i) == IF i = 0 THEN 0
                 ELSE Upto(i - 1) + (IF m[i] > 0 THEN len[i] ELSE 0)
  IN  Upto(Len(m))

\* cv2.bitwise_and(image, image, mask=mask) followed by cv2.cvtColor: a pixel
\* outside the mask is black, which is (0, 0, 0) in HSV too
fish_region_hsv(hsv, mask) ==
  [i \in Runs(hsv) |-> IF mask[i] > 0 THEN hsv[i] ELSE <<0, 0, 0>>]

\* cv2.inRange on one pixel: 255 inside the inclusive box, else 0
InRange(px, lower, upper) ==
  IF \A c \in 1..3 : lower[c] <= px[c] /\ px[c] <= upper[c] THEN 255 ELSE 0

\* cv2.bitwise_and(m, m, mask=fish_mask)
MaskedBy(m, fish_mask) ==
  [i \in Runs(m) |-> IF fish_mask[i] > 0 THEN m[i] ELSE 0]

\* cv2.bitwise_or of two 0/255 masks
BitwiseOr(m1, m2) == [i \in Runs(m1) |-> Max(m1[i], m2[i])]

_create_white_mask(table, hsv, fish_mask) ==
  LET thresh == table.white
      color_mask == [i \in Runs(hsv) |->
                       InRange(hsv[i], thresh.lower, thresh.upper)]
  IN  MaskedBy(color_mask, fish_mask)

\* a faulty variant: a pixel already counted as white is not counted as red
_create_red_mask_exclusive(table, hsv, fish_mask) ==
  LET thresh == table.red
      white == _create_white_mask(table, hsv, fish_mask)
      mask1 == [i \in Runs(hsv) |->
                  InRange(hsv[i], thresh.lower1, thresh.upper1)]
      mask2 == [i \in Runs(hsv) |->
                  InRange(hsv[i], thresh.lower2, thresh.upper2)]
      red_mask == BitwiseOr(mask1, mask2)
  IN  [i \in Runs(hsv) |->
         IF white[i] > 0 THEN 0 ELSE MaskedBy(red_mask, fish_mask)[i]]

_create_red_mask(table, hsv, fish_mask) ==
  LET thresh == table.red
      mask1 == [i \in Runs(hsv) |->
                  InRange(hsv[i], thresh.lower1, thresh.upper1)]
      mask2 == [i \in Runs(hsv) |->
                  InRange(hsv[i], thresh.lower2, thresh.upper2)]
      red_mask == BitwiseOr(mask1, mask2)
  IN  MaskedBy(red_mask, fish_mask)

\* a faulty variant: the colour mask is not intersected with the fish mask
_create_black_mask_unmasked(table, hsv, fish_mask) ==
  LET thresh == table.black
  IN  [i \in Runs(hsv) |-> InRange(hsv[i], thresh.lower, thresh.upper)]

_create_black_mask(table, hsv, fish_mask) ==
  LET thresh == table.black
      color_mask == [i \in Runs(hsv) |->
                       InRange(hsv[i], thresh.lower, thresh.upper)]
  IN  MaskedBy(color_mask, fish_mask)

\* the sum of channel c over the pixels of m
ChannelSum(hsv, c, m, len) ==
  LET RECURSIVE Upto(_)
      Upto(i) == IF i = 0 THEN 0
                 ELSE Upto(i - 1) + (IF m[i] > 0 THEN len[i] * hsv[i][c] ELSE 0)
  IN  Upto(Len(m))

\* np.std of channel c over the pixels of m (at least one), in StdScale-ths:
\* the variance is sum_{i<j} n_i n_j (x_i - x_j)^2 / N^2
StdOf(hsv, c, m, len) ==
  LET N == CountNonZero(m, len)
      RECURSIVE Pairs(_, _)
      Pairs(i, j) ==
        IF i > Len(m) THEN 0
        ELSE IF j > Len(m) THEN Pairs(i + 1, i + 2)
        ELSE Pairs(i, j + 1)
             + (IF m[i] > 0 /\ m[j] > 0
                THEN len[i] * len[j] * (hsv[i][c] - hsv[j][c])
                       * (hsv[i][c] - hsv[j][c])
                ELSE 0)
  IN  ISqrt(MulDiv(Pairs(1, 2), StdScale * StdScale, N * N))

\* a faulty variant: an empty red band scores 0 instead of the neutral 0.5
_calculate_saturation_score_zero(hsv, red_mask, len) ==
  IF CountNonZero(red_mask, len) = 0 THEN 0
  ELSE MulDiv(ChannelSum(hsv, 2, red_mask, len), ScoreScale,
              255 * CountNonZero(red_mask, len))

_calculate_saturation_score(hsv, red_mask, len) ==
  IF CountNonZero(red_mask, len) = 0 THEN Half
  ELSE MulDiv(ChannelSum(hsv, 2, red_mask, len), ScoreScale,
              255 * CountNonZero(red_mask, len))

\* the 8-bit map Canny runs on: (white 1 + red 2 + black 3) * 50, as uint8
EdgeMap(white_mask, red_mask, black_mask) ==
  [i \in Runs(white_mask) |->
     (((IF white_mask[i] > 0 THEN 1 ELSE 0)
       + (IF red_mask[i] > 0 THEN 2 ELSE 0)
       + (IF black_mask[i] > 0 THEN 3 ELSE 0)) * 50) % 256]

\* canny = <<edge pixels, dilated edge pixels>>, the counts cv2.Canny and
\* cv2.dilate give for the map
_calculate_edge_sharpness(canny) ==
  IF canny[2] = 0 THEN Half
  ELSE Min(MulDiv(3 * canny[1], ScoreScale, 2 * canny[2]), ScoreScale)

\* a faulty variant: a patch's score is not floored at 0
_calculate_color_consistency_unfloored(hsv, white_mask, red_mask, black_mask, len) ==
  LET white_scores ==
        IF CountNonZero(white_mask, len) > PatchPixels
        THEN <<ScoreScale - MulDiv(StdOf(hsv, 3, white_mask, len),
                                   ScoreScale, 50 * StdScale)>>
        ELSE <<>>
      red_scores ==
        IF CountNonZero(red_mask, len) > PatchPixels
        THEN <<ScoreScale - MulDiv(3 * StdOf(hsv, 1, red_mask, len)
                                     + StdOf(hsv, 2, red_mask, len),
                                   ScoreScale, 150 * StdScale)>>
        ELSE <<>>
      black_scores ==
        IF CountNonZero(black_mask, len) > PatchPixels
        THEN <<ScoreScale - MulDiv(StdOf(hsv, 3, black_mask, len),
                                   ScoreScale, 30 * StdScale)>>
        ELSE <<>>
      scores == white_scores \o red_scores \o black_scores
      total == IF scores = <<>> THEN 0
               ELSE IF Len(scores) = 1 THEN scores[1]
               ELSE IF Len(scores) = 2 THEN scores[1] + scores[2]
               ELSE scores[1] + scores[2] + scores[3]
  IN  IF scores = <<>> THEN Half
      ELSE IF total >= 0 THEN total \div Len(scores)
      ELSE -((-total) \div Len(scores))

_calculate_color_consistency(hsv, white_mask, red_mask, black_mask, len) ==
  LET white_scores ==
        IF CountNonZero(white_mask, len) > PatchPixels
        THEN <<Max(0, ScoreScale - MulDiv(StdOf(hsv, 3, white_mask, len),
                                          ScoreScale, 50 * StdScale))>>
        ELSE <<>>
      red_scores ==
        IF CountNonZero(red_mask, len) > PatchPixels
        THEN <<Max(0, ScoreScale - MulDiv(3 * StdOf(hsv, 1, red_mask, len)
                                            + StdOf(hsv, 2, red_mask, len),
                                          ScoreScale, 150 * StdScale))>>
        ELSE <<>>
      black_scores ==
        IF CountNonZero(black_mask, len) > PatchPixels
        THEN <<Max(0, ScoreScale - MulDiv(StdOf(hsv, 3, black_mask, len),
                                          ScoreScale, 30 * StdScale))>>
        ELSE <<>>
      scores == white_scores \o red_scores \o black_scores
      total == IF scores = <<>> THEN 0
               ELSE IF Len(scores) = 1 THEN scores[1]
               ELSE IF Len(scores) = 2 THEN scores[1] + scores[2]
               ELSE scores[1] + scores[2] + scores[3]
  IN  IF scores = <<>> THEN Half ELSE total \div Len(scores)

\* weights, in hundredths: saturation, edges, consistency
weights == <<40, 35, 25>>

\* the three sub-scores, in the order they are computed
SubScores(hsv, white_mask, red_mask, black_mask, len, canny) ==
  << _calculate_saturation_score(hsv, red_mask, len),
     _calculate_edge_sharpness(canny),
     _calculate_color_consistency(hsv, white_mask, red_mask, black_mask, len) >>

\* quality is a signed number of ScoreScale-ths, rounded toward zero
_calculate_quality_score(scores) ==
  LET sum == scores[1] * weights[1] + scores[2] * weights[2]
               + scores[3] * weights[3]
      quality == IF sum >= 0 THEN sum \div 100 ELSE -((-sum) \div 100)
  IN  Min(Max(quality, 0), ScoreScale)

\* the result for a mask with total_pixels > 0
analyze_masked(table, hsv, mask, len, canny, total_pixels) ==
  LET white_mask == _create_white_mask(table, hsv, mask)
      red_mask == _create_red_mask(table, hsv, mask)
      black_mask == _create_black_mask(table, hsv, mask)
      scores == SubScores(hsv, white_mask, red_mask, black_mask, len, canny)
  IN  IF total_pixels = 0
      THEN Raise("ZeroDivisionError", "division by zero")
      ELSE Ok([white_pct |-> Rat(100 * CountNonZero(white_mask, len),
                                 total_pixels),
               red_pct |-> Rat(100 * CountNonZero(red_mask, len),
                               total_pixels),
               black_pct |-> Rat(100 * CountNonZero(black_mask, len),
                                 total_pixels),
               quality_score |-> _calculate_quality_score(scores),
               scores |-> scores])

\* a faulty variant: the empty mask is not short-circuited
analyze_colors_unguarded(table, image, mask, canny) ==
  LET hsv == fish_region_hsv(image.hsv, mask)
  IN  analyze_masked(table, hsv, mask, image.len, canny,
                     CountNonZero(mask, image.len))

\* scores: the sub-scores computed on the way (<<>>: none was computed)
analyze_colors(table, image, mask, canny) ==
  LET hsv == fish_region_hsv(image.hsv, mask)
      total_pixels == CountNonZero(mask, image.len)
  IN  IF total_pixels = 0
      THEN Ok([white_pct |-> Rat(0, 1), red_pct |-> Rat(0, 1),
               black_pct |-> Rat(0, 1), quality_score |-> 0,
               scores |-> <<>>])
      ELSE analyze_masked(table, hsv, mask, image.len, canny, total_pixels)

----------------------------------------------------------------------------
(* The inputs of the colour engine.                                        *)

\* a recalibrated table whose bands overlap: white takes every bright pixel
\* and black every pixel up to V = 115
RECALIBRATED_THRESHOLDS ==
  [DEFAULT_COLOR_THRESHOLDS EXCEPT !.white.upper = <<179, 255, 255>>,
                                   !.black.upper = <<179, 255, 115>>]

\* the tables _load_thresholds can return: the default, or the file's
ThresholdTables == { DEFAULT_COLOR_THRESHOLDS, RECALIBRATED_THRESHOLDS }

\* HSV values: white, red (both hue ranges), black (twice), and a green that
\* is in no default band
Palette ==
  { <<90, 30, 200>>, <<5, 200, 200>>, <<170, 120, 110>>,
    <<0, 0, 0>>, <<90, 100, 40>>, <<90, 150, 120>> }

\* the HSV value of the pixels outside the mask: white to the default table
BackgroundPalette == { <<90, 30, 200>> }

\* a run is one pixel or a patch just large enough to be scored
RunLengths == { 1, PatchPixels + 1 }

\* runs inside the mask (one of them a patch just too small to be scored)
\* and runs outside it
RunKinds ==
  { [hsv |-> p, mask |-> 1, n |-> n] : p \in Palette, n \in RunLengths }
    \cup { [hsv |-> <<5, 200, 200>>, mask |-> 1, n |-> PatchPixels] }
    \cup { [hsv |-> p, mask |-> 0, n |-> n] :
             p \in BackgroundPalette, n \in RunLengths }

RunSeqs == UNION { [1..k -> RunKinds] : k \in 1..MaxRuns }

ImageOf(rs) == [len |-> [i \in Runs(rs) |-> rs[i].n],
                hsv |-> [i \in Runs(rs) |-> rs[i].hsv]]

MaskOf(rs) == [i \in Runs(rs) |-> rs[i].mask]

ImagePixels(image) ==
  LET RECURSIVE Upto(_)
      Upto(i) == IF i = 0 THEN 0 ELSE Upto(i - 1) + image.len[i]
  IN  Upto(Len(image.len))

\* what cv2.Canny and cv2.dilate (3x3) can report for a map: no edge in a
\* constant map; e edge pixels dilate to between e and 9e pixels of the image
\* (the two extremes are taken)
EdgeOutcomes(map, pixels) ==
  IF \A i \in Runs(map) : map[i] = map[1] THEN { <<0, 0>> }
  ELSE { <<0, 0>> }
         \cup { <<e, Min(g * e, pixels)>> :
                  e \in 1..Min(MaxEdges, pixels), g \in {1, 9} }

\* the outcomes for an image under a table; Canny is not run on an empty mask
CannyOutcomes(table, image, mask) ==
  LET hsv == fish_region_hsv(image.hsv, mask)
  IN  IF CountNonZero(mask, image.len) = 0 THEN { <<0, 0>> }
      ELSE EdgeOutcomes(EdgeMap(_create_white_mask(table, hsv, mask),
                                _create_red_mask(table, hsv, mask),
                                _create_black_mask(table, hsv, mask)),
                        ImagePixels(image))

NoImage ==
  [image |-> [len |-> <<>>, hsv |-> <<>>], mask |-> <<>>, canny |-> <<0, 0>>]

----------------------------------------------------------------------------
(* The inputs of the size engine and of the lookup.                        *)

UnknownLabels ==
  { <<>>,
    <<"c","o","i","n">>,
    <<"2","p","e","s","o">>,
    <<"1"," ","p","e","s","o"," ","n","e","w">>,
    <<"1","p","e","s","o","_","n","e","w"," ">> }

BaseLabels == DOMAIN COIN_SIZES \cup DOMAIN COIN_CLASS_MAP \cup UnknownLabels

IsLower(c) == \E i \in 1..26 : LowerChars[i] = c

\* the places of the first MaxCasePos lower-case letters of s
CasePlaces(s) ==
  { i \in 1..Len(s) :
      /\ IsLower(s[i])
      /\ Cardinality({ j \in 1..i : IsLower(s[j]) }) <= MaxCasePos }

UpperAt(s, places) ==
  [i \in 1..Len(s) |-> IF i \in places THEN UpperChar(s[i]) ELSE s[i]]

Recasings(s) ==
  { UpperAt(s, places) : places \in SUBSET CasePlaces(s) } \cup { StrUpper(s) }

Labels == UNION { Recasings(s) : s \in BaseLabels }

FishPixelCounts == (0..MaxSmallFish) \cup { ScenarioFishPixels }

\* sides of a coin box, in half pixels: the two sides that int() truncates
\* to 0 pixels, and the sides within half a pixel of the example coin's (the
\* sizes then stay far below the 2^31 / SizeScale^2 the arithmetic can hold)
BoxSides ==
  {0, 1} \cup ((2 * ScenarioDiameterPx - 1)..(2 * ScenarioDiameterPx + 1))

BoxOrigin == <<3, 4>>

Boxes ==
  { <<BoxOrigin[1], BoxOrigin[2], BoxOrigin[1] + w, BoxOrigin[2] + h>> :
      w \in BoxSides, h \in BoxSides }

FishOutcomes ==
  { [model |-> FALSE, found |-> FALSE, pixels |-> 0],
    [model |-> TRUE, found |-> FALSE, pixels |-> 0] }
    \cup { [model |-> TRUE, found |-> TRUE, pixels |-> n] :
             n \in FishPixelCounts }

\* the coin detector when it is not consulted
CoinIdle ==
  [model |-> TRUE, found |-> FALSE, class_name |-> <<>>,
   bbox |-> <<0, 0, 0, 0>>]

CoinOutcomes ==
  { [model |-> FALSE, found |-> FALSE, class_name |-> <<>>,
     bbox |-> <<0, 0, 0, 0>>],
    CoinIdle }
    \cup { [model |-> TRUE, found |-> TRUE, class_name |-> l, bbox |-> b] :
             l \in Labels, b \in Boxes }

FishIdle == [model |-> TRUE, found |-> FALSE, pixels |-> 0]

\* the diameters calculate_ppc is called with directly
PixelDiameters ==
  { IntOfHalves(Max(b[3] - b[1], b[4] - b[2])) : b \in Boxes }
    \cup { -ScenarioDiameterPx }

\* the scales calculate_fish_size is called with directly
Scales ==
  { RatDiv(Rat(px, 1), COIN_SIZES[k].diameter_cm) :
      px \in PixelDiameters, k \in DOMAIN COIN_SIZES }

Idle ==
  [op |-> "idle", coin_class |-> <<>>, px |-> 0, fpc |-> 0, ppc |-> Rat(0, 1),
   fish |-> FishIdle, coin |-> CoinIdle]

----------------------------------------------------------------------------
(* The colour engine's variables are pinned while the size engine runs.    *)

\* no symmetry analysis has been asked for
NoFish == [shape |-> "none"]

SymIdle ==
  /\ symIn = NoFish
  /\ symOut = NoResult

ColorIdle ==
  /\ thresholds = DEFAULT_COLOR_THRESHOLDS
  /\ colorIn = NoImage
  /\ colorOut = NoResult

\* no price has been asked for
PriceIdle ==
  /\ priceIn = [pattern_name |-> <<>>]
  /\ features = [predict |-> <<>>, train |-> <<>>]
  /\ priceOut = [op |-> "none"]

\* no analyzer has been constructed
CalibIdle ==
  /\ calibration = [state |-> "absent"]
  /\ analyzer = NoResult
  /\ colorStep = [op |-> "none"]

\* no caller is in a getter
LazyIdle ==
  /\ global = <<>>
  /\ constructed = <<>>
  /\ caller = <<>>

\* no analysis and no recalibration is under way
RecalIdle ==
  /\ shared = <<>>
  /\ analysis = <<>>
  /\ saver = <<>>

\* no sequence of calls is under way
SessionIdle ==
  /\ given = <<>>
  /\ buffers = <<>>
  /\ outcome = <<>>

\* no request has been made
AppraiseIdle ==
  /\ appraiseIn = <<>>
  /\ appraiseOut = <<>>

RestIdle == PriceIdle /\ CalibIdle /\ LazyIdle /\ RecalIdle /\ AppraiseIdle

SizeInit ==
  /\ call = Idle
  /\ ret = NoResult
  /\ ColorIdle
  /\ SymIdle
  /\ RestIdle
  /\ SessionIdle

NormalizeCoinClass ==
  /\ call.op = "idle"
  /\ \E l \in Labels :
       /\ call' = [Idle EXCEPT !.op = "normalize_coin_class", !.coin_class = l]
       /\ ret' = normalize_coin_class(l)
  /\ UNCHANGED notSizeVars

GetCoinDiameterCm ==
  /\ call.op = "idle"
  /\ \E l \in Labels :
       /\ call' = [Idle EXCEPT !.op = "get_coin_diameter_cm", !.coin_class = l]
       /\ ret' = get_coin_diameter_cm(l)
  /\ UNCHANGED notSizeVars

GetCoinDiameterMm ==
  /\ call.op = "idle"
  /\ \E l \in Labels :
       /\ call' = [Idle EXCEPT !.op = "get_coin_diameter_mm", !.coin_class = l]
       /\ ret' = get_coin_diameter_mm(l)
  /\ UNCHANGED notSizeVars

CalculatePpc ==
  /\ call.op = "idle"
  /\ \E l \in Labels, px \in PixelDiameters :
       /\ call' = [Idle EXCEPT !.op = "calculate_ppc", !.coin_class = l,
                               !.px = px]
       /\ ret' = calculate_ppc(l, px)
  /\ UNCHANGED notSizeVars

CalculateFishSize ==
  /\ call.op = "idle"
  /\ \E n \in FishPixelCounts, s \in Scales :
       /\ call' = [Idle EXCEPT !.op = "calculate_fish_size", !.fpc = n,
                               !.ppc = s]
       /\ ret' = calculate_fish_size(n, s)
  /\ UNCHANGED notSizeVars

DetectSize ==
  /\ call.op = "idle"
  /\ \E fish \in FishOutcomes :
       \E coin \in (IF fish.model /\ fish.found THEN CoinOutcomes
                    ELSE { CoinIdle }) :
         /\ call' = [Idle EXCEPT !.op = "detect_size", !.fish = fish,
                                 !.coin = coin]
         /\ ret' = detect_size(fish, coin)
  /\ UNCHANGED notSizeVars

SizeNext ==
  \/ DetectSize
  \/ CalculateFishSize
  \/ CalculatePpc
  \/ NormalizeCoinClass
  \/ GetCoinDiameterCm
  \/ GetCoinDiameterMm

SizeSpec == SizeInit /\ [][SizeNext]_vars

----------------------------------------------------------------------------
(* Properties of the size engine and of the lookup.                        *)

\* the calibration detect_size works with once both detections succeeded
SizeRan ==
  /\ call.op = "detect_size"
  /\ call.fish.model /\ call.fish.found
  /\ call.coin.model /\ call.coin.found

DetectedPx ==
  IntOfHalves(Max(call.coin.bbox[3] - call.coin.bbox[1],
                  call.coin.bbox[4] - call.coin.bbox[2]))

\* two labels that differ at most in letter case
EqualIgnoringCase(a, b) ==
  /\ Len(a) = Len(b)
  /\ \A i \in 1..Len(a) : LowerChar(a[i]) = LowerChar(b[i])

\* a label that names a coin: a canonical key, or an alias in any casing
KnownLabel(l) ==
  \/ l \in DOMAIN COIN_SIZES
  \/ \E a \in DOMAIN COIN_CLASS_MAP : EqualIgnoringCase(l, a)

\* the diameter in centimetres of the coin a known label names
KnownDiameterCm(l) ==
  IF l \in DOMAIN COIN_SIZES THEN COIN_SIZES[l].diameter_cm
  ELSE COIN_SIZES[COIN_CLASS_MAP[
         CHOOSE a \in DOMAIN COIN_CLASS_MAP : EqualIgnoringCase(l, a)]].diameter_cm

\* C1: with a positive scale (ppc > 0) and a fish mask of 0 pixels the size
\* estimate is exactly 0.0 and no division error is raised, both when
\* calculate_fish_size is called directly and inside detect_size.
C1_ZeroPixelsGiveZeroSize ==
  /\ (call.op = "calculate_fish_size" /\ call.fpc = 0 /\ call.ppc[1] > 0)
       => (ret.kind = "ok" /\ ret.val = 0)
  /\ (SizeRan /\ call.fish.pixels = 0 /\ KnownLabel(call.coin.class_name)
        /\ DetectedPx > 0)
       => (ret.kind = "ok" /\ ret.val.size_cm = 0)

C1_Witness ==
  /\ SizeRan /\ call.fish.pixels = 0 /\ DetectedPx = ScenarioDiameterPx
  /\ ret.kind = "ok" /\ ret.val.size_cm = 0 /\ ret.val.ppc[1] > 0

\* C2: for a fixed positive scale the size estimate is monotonically
\* non-decreasing in the pixel count: the estimate returned for b pixels is
\* at least the estimate for every a <= b and at most that for every a >= b.
C2_SizeMonotoneInPixels ==
  (call.op = "calculate_fish_size" /\ call.ppc[1] > 0) =>
    /\ ret.kind = "ok"
    /\ \A a \in FishPixelCounts :
         LET other == calculate_fish_size(a, call.ppc)
         IN  /\ other.kind = "ok"
             /\ a <= call.fpc => other.val <= ret.val
             /\ a >= call.fpc => other.val >= ret.val

C2_Witness ==
  /\ call.op = "calculate_fish_size" /\ call.ppc[1] > 0
  /\ call.fpc = MaxSmallFish /\ ret.kind = "ok"
  /\ calculate_fish_size(1, call.ppc).val < ret.val
  /\ ret.val < calculate_fish_size(ScenarioFishPixels, call.ppc).val

\* an invalid calibration: the reference diameter in pixels is <= 0 (the
\* diameter in centimetres comes from COIN_SIZES and is never <= 0)
InvalidCalibration ==
  \/ call.op = "calculate_ppc" /\ KnownLabel(call.coin_class) /\ call.px <= 0
  \/ call.op = "calculate_fish_size" /\ call.ppc[1] <= 0
  \/ SizeRan /\ KnownLabel(call.coin.class_name) /\ DetectedPx <= 0

\* C3: size estimation fails with a dedicated invalid-calibration error
\* whenever the reference diameter in pixels (or in centimetres) is <= 0: it
\* returns no number and raises no bare division error.
C3_InvalidCalibrationRejected ==
  InvalidCalibration => ret.kind = "InvalidCalibration"

\* C3, as the code behaves: a coin box that truncates to 0 pixels ends
\* detect_size in ZeroDivisionError, and a scale <= 0 is returned as a number.
C3_CodeBehaviour ==
  /\ (SizeRan /\ KnownLabel(call.coin.class_name) /\ DetectedPx = 0)
       => ret.kind = "ZeroDivisionError"
  /\ (call.op = "calculate_ppc" /\ KnownLabel(call.coin_class)
        /\ call.px <= 0)
       => (ret.kind = "ok" /\ ret.val[1] <= 0)
  /\ (call.op = "calculate_fish_size" /\ call.ppc[1] < 0)
       => (ret.kind = "ok" /\ ret.val >= 0)

\* floor(100 * x) of a rational x >= 0
Hundredths(x) == MulDiv(x[1], 100, x[2])

\* pi * L^2 = 22 * n / ppc^2, to the SizeScale-th of a centimetre L is
\* rounded down to: L^2 <= SizeScale^2 * 22 * n / (pi * ppc^2) < (L + 1)^2
ClosedForm(L, n, ppc) ==
  LET exact == MulDiv(22 * n * ppc[2] * ppc[2], SizeScale * SizeScale * PiDen,
                      ppc[1] * ppc[1] * PiNum)
  IN  L >= 0 /\ L * L <= exact /\ exact < (L + 1) * (L + 1)

\* C4: the size estimate is the ellipse closed form with aspect ratio 5.5:
\* area_cm2 = pixels / ppc^2 with ppc = diameter_pixels / diameter_cm, and
\* pi * L^2 = 22 * area_cm2; a 100 px coin of 2.7 cm and a 50,000 px mask
\* give ppc ~ 37.04, area ~ 36.45 cm2 and a size of ~ 15.98 cm.
C4_SizeIsEllipseClosedForm ==
  /\ (call.op = "calculate_fish_size" /\ call.ppc[1] > 0)
       => (ret.kind = "ok" /\ ClosedForm(ret.val, call.fpc, call.ppc))
  /\ (SizeRan /\ KnownLabel(call.coin.class_name) /\ DetectedPx > 0)
       => /\ ret.kind = "ok"
          /\ ret.val.ppc =
               RatDiv(Rat(DetectedPx, 1),
                      KnownDiameterCm(call.coin.class_name))
          /\ ClosedForm(ret.val.size_cm, call.fish.pixels, ret.val.ppc)
  /\ (SizeRan /\ call.fish.pixels = 50000 /\ DetectedPx = 100
        /\ call.coin.class_name = <<"5","p","e","s","o","_","o","l","d">>)
       => /\ ret.kind = "ok"
          /\ Hundredths(ret.val.ppc) = 3703
          /\ Hundredths(RatDiv(Rat(50000, 1),
                               RatMul(ret.val.ppc, ret.val.ppc))) = 3645
          /\ 1597 * SizeScale <= 100 * ret.val.size_cm
          /\ 100 * ret.val.size_cm <= 1598 * SizeScale

C4_Witness ==
  /\ SizeRan /\ call.fish.pixels = 50000 /\ DetectedPx = 100
  /\ call.coin.class_name = <<"5","p","e","s","o","_","o","l","d">>
  /\ ret.kind = "ok" /\ ret.val.size_cm = 1597

\* what an unknown-class error looks like: a ValueError that lists the valid
\* classes
IsUnknownClassError(r) ==
  /\ r.kind = "ValueError"
  /\ r.val = "Unknown coin class"
  /\ r.classes = DOMAIN COIN_SIZES

\* C5: a label that is neither a canonical key nor an alias makes
\* normalize_coin_class, get_coin_diameter_cm and get_coin_diameter_mm raise
\* the unknown-class error listing the valid classes, never return a default
\* diameter, and detect_size (and calculate_ppc) produce no size for it.
C5_UnknownClassIsHardError ==
  /\ (call.op \in {"normalize_coin_class", "get_coin_diameter_cm",
                   "get_coin_diameter_mm", "calculate_ppc"}
        /\ ~KnownLabel(call.coin_class))
       => IsUnknownClassError(ret)
  /\ (SizeRan /\ ~KnownLabel(call.coin.class_name))
       => IsUnknownClassError(ret)

C5_Witness ==
  /\ SizeRan /\ call.coin.class_name = <<"2","p","e","s","o">>
  /\ call.fish.pixels = ScenarioFishPixels /\ DetectedPx = ScenarioDiameterPx
  /\ IsUnknownClassError(ret)

\* C6: the lookup is case-insensitive: a label and every re-casing of it get
\* the same outcome from normalize_coin_class, the same canonical class or
\* the unknown-class error for both.
C6_LookupIsCaseInsensitive ==
  call.op = "normalize_coin_class" =>
    \A l \in Labels :
      EqualIgnoringCase(l, call.coin_class) =>
        LET other == normalize_coin_class(l)
        IN  /\ other.kind = ret.kind
            /\ ret.kind = "ok" => other.val = ret.val

\* the label is one normalize_coin_class accepts
Accepted(l) == normalize_coin_class(l).kind = "ok"

\* both getters succeed on the label and give one diameter in two units
GettersAgree(cm, mm) ==
  /\ cm.kind = "ok" /\ mm.kind = "ok"
  /\ mm.val = RatMul(Rat(10, 1), cm.val)

\* C29: the reference tables are closed and consistent: every alias of
\* COIN_CLASS_MAP is lower-case and maps to a key of COIN_SIZES; every entry
\* of COIN_SIZES has diameter_cm > 0 and diameter_mm = 10 * diameter_cm; on
\* every label the lookup accepts, get_coin_diameter_cm and
\* get_coin_diameter_mm both succeed and agree.
C29_TablesAreClosed ==
  call.op \in {"get_coin_diameter_cm", "get_coin_diameter_mm"} =>
    /\ \A alias \in DOMAIN COIN_CLASS_MAP :
         /\ StrLower(alias) = alias
         /\ COIN_CLASS_MAP[alias] \in DOMAIN COIN_SIZES
    /\ \A key \in DOMAIN COIN_SIZES :
         /\ RatLeq(Rat(0, 1), COIN_SIZES[key].diameter_cm)
         /\ COIN_SIZES[key].diameter_cm # Rat(0, 1)
         /\ COIN_SIZES[key].diameter_mm
              = RatMul(Rat(10, 1), COIN_SIZES[key].diameter_cm)
    /\ Accepted(call.coin_class) =>
         /\ GettersAgree(get_coin_diameter_cm(call.coin_class),
                         get_coin_diameter_mm(call.coin_class))
         /\ ret = (IF call.op = "get_coin_diameter_cm"
                   THEN get_coin_diameter_cm(call.coin_class)
                   ELSE get_coin_diameter_mm(call.coin_class))

\* the millimetres of a re-cased alias
C29_Witness ==
  /\ call.op = "get_coin_diameter_mm"
  /\ call.coin_class \notin DOMAIN COIN_SIZES
  /\ StrLower(call.coin_class) # call.coin_class
  /\ ret = Ok(Rat(23, 1))

----------------------------------------------------------------------------
(* The colour engine: one analysis of one image.                           *)

SizeIdle ==
  /\ call = Idle
  /\ ret = NoResult

\* ColorAnalyzer.__init__ loads the table
ColorInit ==
  /\ thresholds \in ThresholdTables
  /\ colorIn = NoImage
  /\ colorOut = NoResult
  /\ SizeIdle
  /\ SymIdle
  /\ RestIdle
  /\ SessionIdle

AnalyzeColors ==
  /\ colorOut.kind = "none"
  /\ \E rs \in RunSeqs :
       \E canny \in CannyOutcomes(thresholds, ImageOf(rs), MaskOf(rs)) :
         /\ colorIn' = [image |-> ImageOf(rs), mask |-> MaskOf(rs),
                        canny |-> canny]
         /\ colorOut' = analyze_colors(thresholds, ImageOf(rs), MaskOf(rs),
                                       canny)
  /\ UNCHANGED <<thresholds, notColorVars>>

ColorNext == AnalyzeColors

ColorSpec == ColorInit /\ [][ColorNext]_vars

----------------------------------------------------------------------------
(* Properties of the colour engine.                                        *)

Analyzed == colorOut.kind # "none"

MaskedPixels == CountNonZero(colorIn.mask, colorIn.image.len)

Bands == {"white", "red", "black"}

\* the range test of one band on one HSV value, by the table in use
InBand(b, px) ==
  IF b = "white"
  THEN InRange(px, thresholds.white.lower, thresholds.white.upper) > 0
  ELSE IF b = "black"
  THEN InRange(px, thresholds.black.lower, thresholds.black.upper) > 0
  ELSE \/ InRange(px, thresholds.red.lower1, thresholds.red.upper1) > 0
       \/ InRange(px, thresholds.red.lower2, thresholds.red.upper2) > 0

\* the masked pixels of the image that pass band b's own test
BandCount(b) ==
  LET RECURSIVE Upto(_)
      Upto(i) ==
        IF i = 0 THEN 0
        ELSE Upto(i - 1)
             + (IF colorIn.mask[i] > 0 /\ InBand(b, colorIn.image.hsv[i])
                THEN colorIn.image.len[i] ELSE 0)
  IN  Upto(Len(colorIn.mask))

PctOf(r, b) ==
  IF b = "white" THEN r.white_pct
  ELSE IF b = "red" THEN r.red_pct ELSE r.black_pct

\* C7: on a mask with no set pixel analyze_colors returns white_pct = red_pct
\* = black_pct = 0.0 and quality_score = 0.0, whatever the image and the
\* table, raising nothing and computing no sub-score.
C7_EmptyMaskGivesZeros ==
  (Analyzed /\ MaskedPixels = 0) =>
    /\ colorOut.kind = "ok"
    /\ colorOut.val.white_pct = Rat(0, 1)
    /\ colorOut.val.red_pct = Rat(0, 1)
    /\ colorOut.val.black_pct = Rat(0, 1)
    /\ colorOut.val.quality_score = 0
    /\ colorOut.val.scores = <<>>

C7_Witness ==
  /\ Analyzed /\ MaskedPixels = 0
  /\ thresholds = RECALIBRATED_THRESHOLDS
  /\ Len(colorIn.mask) = MaxRuns
  /\ colorOut.kind = "ok" /\ colorOut.val.quality_score = 0

\* C8: every band percentage analyze_colors returns is within [0, 100]: the
\* pixels a band mask selects are masked pixels, so the matched count is at
\* most the number of masked pixels.
C8_PercentagesWithinRange ==
  Analyzed =>
    /\ colorOut.kind = "ok"
    /\ \A b \in Bands :
         /\ PctOf(colorOut.val, b)[1] >= 0
         /\ PctOf(colorOut.val, b)[1] <= 100 * PctOf(colorOut.val, b)[2]
    /\ LET hsv == fish_region_hsv(colorIn.image.hsv, colorIn.mask)
           band_masks ==
             << _create_white_mask(thresholds, hsv, colorIn.mask),
                _create_red_mask(thresholds, hsv, colorIn.mask),
                _create_black_mask(thresholds, hsv, colorIn.mask) >>
       IN  \A k \in 1..3 :
             /\ \A i \in Runs(colorIn.mask) :
                  band_masks[k][i] > 0 => colorIn.mask[i] > 0
             /\ CountNonZero(band_masks[k], colorIn.image.len) <= MaskedPixels

C8_Witness ==
  /\ Analyzed /\ MaskedPixels > 0
  /\ \E i \in Runs(colorIn.mask) : colorIn.mask[i] = 0
  /\ colorOut.kind = "ok"
  /\ colorOut.val.black_pct = Rat(100, 1)
  /\ colorOut.val.white_pct = Rat(0, 1)

\* the image with run i repainted to the HSV value p
Repainted(i, p) == [colorIn.image EXCEPT !.hsv[i] = p]

\* C9: the band percentages are independent threshold tests over one
\* denominator, the number of masked pixels: each is 100 * (masked pixels
\* passing that band's own test) / (masked pixels); repainting masked pixels
\* in any way that keeps their membership of band Y (entering or leaving
\* other bands, or all of them) leaves Y's percentage unchanged; the three
\* are never renormalised to sum to 100.
C9_BandsAreIndependent ==
  (Analyzed /\ MaskedPixels > 0) =>
    /\ colorOut.kind = "ok"
    /\ \A b \in Bands :
         PctOf(colorOut.val, b) = Rat(100 * BandCount(b), MaskedPixels)
    /\ \A i \in Runs(colorIn.mask), p \in Palette :
         LET repainted == analyze_colors(thresholds, Repainted(i, p),
                                         colorIn.mask, colorIn.canny)
         IN  \A b \in Bands :
               (/\ colorIn.mask[i] > 0
                /\ InBand(b, p) = InBand(b, colorIn.image.hsv[i]))
                 => PctOf(repainted.val, b) = PctOf(colorOut.val, b)

\* overlapping bands and a pixel in no band: the percentages sum above 100
C9_Witness ==
  /\ Analyzed /\ MaskedPixels > 0 /\ colorOut.kind = "ok"
  /\ \E i \in Runs(colorIn.mask) :
       /\ colorIn.mask[i] > 0
       /\ \A b \in Bands : ~InBand(b, colorIn.image.hsv[i])
  /\ \E i \in Runs(colorIn.mask) :
       /\ colorIn.mask[i] > 0
       /\ InBand("white", colorIn.image.hsv[i])
       /\ InBand("red", colorIn.image.hsv[i])
  /\ BandCount("white") + BandCount("red") + BandCount("black") > MaskedPixels
  /\ colorOut.val.white_pct = colorOut.val.red_pct
  /\ colorOut.val.white_pct[1] > 50 * colorOut.val.white_pct[2]

\* C10: for a non-empty mask quality_score is the weighted sum
\* 0.40 * saturation + 0.35 * edge sharpness + 0.25 * consistency, each of
\* the three sub-scores lies in [0, 1] before it is weighted, and the
\* returned quality_score lies in [0, 1].
C10_QualityIsWeightedSum ==
  (Analyzed /\ MaskedPixels > 0) =>
    /\ colorOut.kind = "ok"
    /\ LET s == colorOut.val.scores
           q == colorOut.val.quality_score
           sum == 40 * s[1] + 35 * s[2] + 25 * s[3]
       IN  /\ Len(s) = 3
           /\ \A k \in 1..3 : 0 <= s[k] /\ s[k] <= ScoreScale
           /\ 0 <= q /\ q <= ScoreScale
           /\ 100 * q <= sum /\ sum < 100 * (q + 1)

\* all three sub-scores computed from evidence, none at its neutral 0.5
C10_Witness ==
  /\ Analyzed /\ MaskedPixels > 0 /\ colorOut.kind = "ok"
  /\ colorIn.canny[2] > colorIn.canny[1]
  /\ \A k \in 1..3 :
       /\ colorOut.val.scores[k] # Half
       /\ 0 < colorOut.val.scores[k]
       /\ colorOut.val.scores[k] < ScoreScale
  /\ 0 < colorOut.val.quality_score
  /\ colorOut.val.quality_score < ScoreScale

\* every masked pixel of the analysed image has V = 0
EntirelyBlack ==
  \A i \in Runs(colorIn.mask) :
    colorIn.mask[i] > 0 => colorIn.image.hsv[i][3] = 0

\* C11: under the default thresholds a non-empty masked region that is
\* entirely black (V = 0) yields black_pct = 100.0, white_pct = red_pct = 0.0
\* and a saturation sub-score of 0.5 feeding quality_score; under any table
\* the saturation sub-score is exactly 0.5 whenever no masked pixel matches
\* the red band.
C11_EntirelyBlackRegion ==
  (Analyzed /\ MaskedPixels > 0) =>
    /\ colorOut.kind = "ok"
    /\ BandCount("red") = 0 => colorOut.val.scores[1] = Half
    /\ (thresholds = DEFAULT_COLOR_THRESHOLDS /\ EntirelyBlack) =>
         /\ colorOut.val.black_pct = Rat(100, 1)
         /\ colorOut.val.white_pct = Rat(0, 1)
         /\ colorOut.val.red_pct = Rat(0, 1)
         /\ colorOut.val.scores[1] = Half
         /\ colorOut.val.quality_score
              = (40 * Half + 35 * colorOut.val.scores[2]
                   + 25 * colorOut.val.scores[3]) \div 100

C11_Witness ==
  /\ Analyzed /\ MaskedPixels > PatchPixels
  /\ thresholds = DEFAULT_COLOR_THRESHOLDS /\ EntirelyBlack
  /\ \E i \in Runs(colorIn.mask) : colorIn.mask[i] = 0
  /\ colorOut.kind = "ok"
  /\ colorOut.val.black_pct = Rat(100, 1)
  /\ colorOut.val.scores[1] = Half

\* the values of channel c that bound a box of the table, and their
\* neighbours: two boxes that share a value share one of these
EdgeValues(table, c) ==
  LET bounds == { table.white.lower[c], table.white.upper[c],
                  table.red.lower1[c], table.red.upper1[c],
                  table.red.lower2[c], table.red.upper2[c],
                  table.black.lower[c], table.black.upper[c] }
      top == IF c = 1 THEN 179 ELSE 255
  IN  { v \in UNION { {b - 1, b, b + 1} : b \in bounds } : 0 <= v /\ v <= top }

EdgePixels(table) ==
  EdgeValues(table, 1) \X EdgeValues(table, 2) \X EdgeValues(table, 3)

\* C27: under the default table no HSV value (H 0..179, S 0..255, V 0..255)
\* is in two of the bands white, red and black, so that for every image and
\* non-empty mask white_pct + red_pct + black_pct <= 100.
C27_DefaultBandsDisjoint ==
  (Analyzed /\ thresholds = DEFAULT_COLOR_THRESHOLDS) =>
    /\ \A px \in EdgePixels(thresholds) :
         Cardinality({ b \in Bands : InBand(b, px) }) <= 1
    /\ \A i \in Runs(colorIn.mask) :
         Cardinality({ b \in Bands : InBand(b, colorIn.image.hsv[i]) }) <= 1
    /\ MaskedPixels > 0 =>
         /\ colorOut.kind = "ok"
         /\ RatLeq(RatAdd(RatAdd(colorOut.val.white_pct,
                                 colorOut.val.red_pct),
                          colorOut.val.black_pct),
                   Rat(100, 1))

\* a fish of red and black pixels under the default table
C27_Witness ==
  /\ Analyzed /\ thresholds = DEFAULT_COLOR_THRESHOLDS
  /\ MaskedPixels > 0
  /\ colorOut.kind = "ok"
  /\ colorOut.val.red_pct[1] > 0 /\ colorOut.val.black_pct[1] > 0
  /\ RatAdd(RatAdd(colorOut.val.white_pct, colorOut.val.red_pct),
            colorOut.val.black_pct) = Rat(100, 1)

\* the band masks of the analysed image
BandMasks ==
  LET hsv == fish_region_hsv(colorIn.image.hsv, colorIn.mask)
  IN  [white |-> _create_white_mask(thresholds, hsv, colorIn.mask),
       red |-> _create_red_mask(thresholds, hsv, colorIn.mask),
       black |-> _create_black_mask(thresholds, hsv, colorIn.mask)]

\* `combined`: white 1 + red 2 + black 3, before the multiplication
BandCode(masks, i) ==
  (IF masks.white[i] > 0 THEN 1 ELSE 0)
    + (IF masks.red[i] > 0 THEN 2 ELSE 0)
    + (IF masks.black[i] > 0 THEN 3 ELSE 0)

\* the bands pixel i belongs to
MembersOf(masks, i) == { b \in Bands : masks[b][i] > 0 }

Injective(masks) ==
  LET map == EdgeMap(masks.white, masks.red, masks.black)
  IN  /\ \A i \in Runs(map) : BandCode(masks, i) * 50 <= 255
      /\ \A i, j \in Runs(map) :
           MembersOf(masks, i) # MembersOf(masks, j) => map[i] # map[j]

\* C28: in the map the edge detection runs on, pixels that belong to
\* different sets of bands have different intensities, for every threshold
\* table: white + red does not collide with black and no code times 50
\* exceeds 255.
C28_BandCodeInjective ==
  (Analyzed /\ MaskedPixels > 0) =>
    \A masks \in { BandMasks } : Injective(masks)

----------------------------------------------------------------------------
(* app/services/symmetry_analysis.py: SymmetryAnalyzer.                    *)
(*                                                                         *)
(* A buffer is a record [w, h, image, mask]: image gives every pixel       *)
(* <<x, y>> (0 <= x < w, 0 <= y < h) the name of its colour, mask gives it *)
(* 0 or 255.  A colour stands for one BGR value; the tables below give its *)
(* HSV value and its grey level as cv2.cvtColor computes them.             *)

Colours == {"black", "white", "red", "yellow"}

\* cv2.cvtColor(..., cv2.COLOR_BGR2HSV) of one pixel
HSVOf(c) ==
  IF c = "white" THEN <<0, 0, 255>>
  ELSE IF c = "red" THEN <<0, 255, 255>>
  ELSE IF c = "yellow" THEN <<30, 255, 255>>
  ELSE <<0, 0, 0>>

\* cv2.cvtColor(..., cv2.COLOR_BGR2GRAY) of one pixel
GrayOf(c) ==
  IF c = "white" THEN 255
  ELSE IF c = "red" THEN 76
  ELSE IF c = "yellow" THEN 226
  ELSE 0

Pixels(w, h) == (0..(w - 1)) \X (0..(h - 1))

\* the array f written out in memory, entry by entry
Array(f) == f @@ [p \in {} |-> 0]

\* np.argwhere(mask > 0)
Coords(buf) == { p \in Pixels(buf.w, buf.h) : buf.mask[p] > 0 }

MinOf(S) == CHOOSE a \in S : \A b \in S : a <= b

MaxOf(S) == CHOOSE a \in S : \A b \in S : a >= b

SumOf(f, S) ==
  LET RECURSIVE Sum(_)
      Sum(T) == IF T = {} THEN 0
                ELSE LET a == CHOOSE b \in T : TRUE
                     IN  f[a] + Sum(T \ {a})
  IN  Sum(S)

\* what _align_fish and _split_halves return when there is nothing
None == [w |-> 0, h |-> 0, image |-> <<>>, mask |-> <<>>]

\* center = tuple(mean[0].astype(int)): the truncated centroid of the mask
CenterOf(buf) ==
  LET n == Cardinality(Coords(buf))
      xs == [x \in 0..(buf.w - 1) |->
               x * Cardinality({ y \in 0..(buf.h - 1) : buf.mask[<<x, y>>] > 0 })]
      ys == [y \in 0..(buf.h - 1) |->
               y * Cardinality({ x \in 0..(buf.w - 1) : buf.mask[<<x, y>>] > 0 })]
  IN  << SumOf(xs, DOMAIN xs) \div n, SumOf(ys, DOMAIN ys) \div n >>

\* <<new_w, new_h>> for a rotation by 0, 180 or 90 degrees
NewSize(buf, turn) ==
  IF turn = "quarter" THEN <<buf.h, buf.w>> ELSE <<buf.w, buf.h>>

\* where the rotation matrix, after `rotation_matrix[0, 2] += (new_w - w) / 2`
\* and `rotation_matrix[1, 2] += (new_h - h) / 2`, sends the pixel p
RotatedTo(buf, turn, center, p) ==
  IF turn = "none" THEN p
  ELSE IF turn = "half"
  THEN << 2 * center[1] - p[1], 2 * center[2] - p[2] >>
  ELSE << p[2] + center[1] - center[2] + (buf.h - buf.w) \div 2,
          center[1] + center[2] - p[1] + (buf.w - buf.h) \div 2 >>

\* the pixel that is sent to q
RotatedFrom(buf, turn, center, q) ==
  IF turn = "none" THEN q
  ELSE IF turn = "half"
  THEN << 2 * center[1] - q[1], 2 * center[2] - q[2] >>
  ELSE << center[1] + center[2] + (buf.w - buf.h) \div 2 - q[2],
          q[1] - center[1] + center[2] - (buf.h - buf.w) \div 2 >>

\* the quarter turn of cv2.warpAffine: a canvas of new_w = h by new_h = w
\* pixels, each taken from the pixel the matrix sends there
QuarterTurn(buf) ==
  LET center == CenterOf(buf)
      from(q) == RotatedFrom(buf, "quarter", center, q)
      inside(p) == p \in Pixels(buf.w, buf.h)
  IN  [w |-> buf.h, h |-> buf.w,
       image |-> Array([q \in Pixels(buf.h, buf.w) |->
                          IF inside(from(q)) THEN buf.image[from(q)]
                          ELSE "black"]),
       mask |-> Array([q \in Pixels(buf.h, buf.w) |->
                         IF inside(from(q)) THEN buf.mask[from(q)] ELSE 0])]

\* cv2.warpAffine with the matrix _align_fish builds: turn is the rotation
\* the principal axis asks for.  "none": the axis points up, the buffers come
\* out as they are.  "half": the axis points down, every pixel is taken from
\* its mirror image through center = the truncated centroid, and what falls
\* outside the buffer is lost (borderValue 0).  "quarter": the axis points
\* right, the canvas is h wide and w high.  "emptied": no mask pixel
\* survives the resampling.
warpAffine(buf, turn) ==
  LET center == CenterOf(buf)
      from(p) == << 2 * center[1] - p[1], 2 * center[2] - p[2] >>
      inside(q) == q \in Pixels(buf.w, buf.h)
  IN  IF turn = "none" THEN buf
      ELSE IF turn = "emptied"
      THEN [buf EXCEPT !.mask = [p \in Pixels(buf.w, buf.h) |-> 0]]
      ELSE IF turn = "quarter" THEN QuarterTurn(buf)
      ELSE [buf EXCEPT
              !.image = [p \in Pixels(buf.w, buf.h) |->
                           IF inside(from(p)) THEN buf.image[from(p)]
                           ELSE "black"],
              !.mask = [p \in Pixels(buf.w, buf.h) |->
                          IF inside(from(p)) THEN buf.mask[from(p)] ELSE 0]]

\* buf[y_min:y_max, x_min:x_max]
Slice(buf, x_min, x_max, y_min, y_max) ==
  LET w == Max(0, Min(x_max, buf.w) - x_min)
      h == Max(0, Min(y_max, buf.h) - y_min)
  IN  [w |-> w, h |-> h,
       image |-> Array([p \in Pixels(w, h) |->
                          buf.image[<<p[1] + x_min, p[2] + y_min>>]]),
       mask |-> Array([p \in Pixels(w, h) |->
                         buf.mask[<<p[1] + x_min, p[2] + y_min>>]])]

\* the padding _crop_to_content is called with
padding == 10

_crop_to_content(buf) ==
  LET coords == Coords(buf)
      xs == { p[1] : p \in coords }
      ys == { p[2] : p \in coords }
      y_min == Max(0, MinOf(ys) - padding)
      x_min == Max(0, MinOf(xs) - padding)
      y_max == Min(buf.h, MaxOf(ys) + padding)
      x_max == Min(buf.w, MaxOf(xs) + padding)
  IN  IF coords = {} THEN buf
      ELSE Slice(buf, x_min, x_max, y_min, y_max)

\* a faulty variant: a mask of any size is aligned
_align_fish_any(buf, turn) ==
  _crop_to_content(warpAffine(buf, turn))

_align_fish(buf, turn) ==
  IF Cardinality(Coords(buf)) < 10 THEN None
  ELSE _crop_to_content(warpAffine(buf, turn))

\* cv2.flip(buf, 1)
Flip(buf) ==
  [buf EXCEPT
     !.image = [p \in Pixels(buf.w, buf.h) |->
                  buf.image[<<buf.w - 1 - p[1], p[2]>>]],
     !.mask = [p \in Pixels(buf.w, buf.h) |->
                 buf.mask[<<buf.w - 1 - p[1], p[2]>>]]]

\* cv2.bitwise_and(img, img, mask=mask): a pixel outside the mask is black;
\* on buffers without a pixel OpenCV allocates no result and the Python
\* binding returns None
Masked(buf) ==
  IF buf.w = 0 \/ buf.h = 0 THEN None
  ELSE [w |-> buf.w, h |-> buf.h,
        image |-> Array([p \in Pixels(buf.w, buf.h) |->
                           IF buf.mask[p] > 0 THEN buf.image[p] ELSE "black"]),
        mask |-> Array(buf.mask)]

\* a faulty variant: the right half is cut to the common width before it is
\* mirrored, so that an odd width loses its last column
_split_halves_cut_first(buf) ==
  LET mid == buf.w \div 2
      left == Slice(buf, 0, mid, 0, buf.h)
      right == Slice(buf, mid, buf.w, 0, buf.h)
      min_w == Min(left.w, right.w)
  IN  << Masked(Slice(left, 0, min_w, 0, buf.h)),
         Masked(Flip(Slice(right, 0, min_w, 0, buf.h))) >>

_split_halves(buf) ==
  LET mid == buf.w \div 2
      left == Slice(buf, 0, mid, 0, buf.h)
      right == Slice(buf, mid, buf.w, 0, buf.h)
      right_mirrored == Flip(right)
      min_w == Min(left.w, right_mirrored.w)
  IN  << Masked(Slice(left, 0, min_w, 0, buf.h)),
         Masked(Slice(right_mirrored, 0, min_w, 0, buf.h)) >>

\* hist_size = [30, 32, 32] over ranges [0, 180), [0, 256), [0, 256): the
\* bin of one HSV value
BinOf(hsv) == << hsv[1] \div 6, hsv[2] \div 8, hsv[3] \div 8 >>

\* the number of bins of the H-S-V histogram
HistBins == 30 * 32 * 32

\* the bins a pixel of the model can fall in
UsedBins == { BinOf(HSVOf(c)) : c \in Colours }

\* cv2.calcHist over the pixels whose grey level is above 0
calcHist(half) ==
  [b \in UsedBins |->
     Cardinality({ p \in Pixels(half.w, half.h) :
                     /\ GrayOf(half.image[p]) > 0
                     /\ BinOf(HSVOf(half.image[p])) = b })]

\* a normalised histogram entry is a whole number of NormScale-ths
NormScale == 100

\* cv2.normalize(hist, hist): scaled to L2 norm 1, a zero histogram stays zero
normalize(hist) ==
  LET squares == [b \in UsedBins |-> hist[b] * hist[b]]
      norm == ISqrt(SumOf(squares, UsedBins))
  IN  [b \in UsedBins |->
         IF norm = 0 THEN 0 ELSE MulDiv(hist[b], NormScale, norm)]

\* cv2.compareHist(h1, h2, cv2.HISTCMP_CORREL) in ScoreScale-ths: the bins no
\* pixel falls in count as zeros; 1 when a variance is zero
compareHist(h1, h2) ==
  LET s1 == SumOf(h1, UsedBins)
      s2 == SumOf(h2, UsedBins)
      s11 == SumOf([b \in UsedBins |-> h1[b] * h1[b]], UsedBins)
      s22 == SumOf([b \in UsedBins |-> h2[b] * h2[b]], UsedBins)
      s12 == SumOf([b \in UsedBins |-> h1[b] * h2[b]], UsedBins)
      num == HistBins * s12 - s1 * s2
      var1 == HistBins * s11 - s1 * s1
      var2 == HistBins * s22 - s2 * s2
      size == ISqrt(MulDiv(Abs(num), ScoreScale, var1)
                      * MulDiv(Abs(num), ScoreScale, var2))
  IN  IF var1 = 0 \/ var2 = 0 THEN ScoreScale
      ELSE IF num >= 0 THEN size ELSE -size

_compare_color_histograms(left, right) ==
  LET left_hist == normalize(calcHist(left))
      right_hist == normalize(calcHist(right))
      score == compareHist(left_hist, right_hist)
  IN  (score + ScoreScale) \div 2

\* cv2.Canny(gray, 50, 150) on an image of flat colours: the edge pixels are
\* those whose right or lower neighbour has another grey level (the grey
\* levels of the model differ by more than the thresholds)
Canny(half) ==
  { p \in Pixels(half.w, half.h) :
      \/ /\ p[1] + 1 < half.w
         /\ GrayOf(half.image[p]) # GrayOf(half.image[<<p[1] + 1, p[2]>>])
      \/ /\ p[2] + 1 < half.h
         /\ GrayOf(half.image[p]) # GrayOf(half.image[<<p[1], p[2] + 1>>]) }

_compare_structure(left, right) ==
  LET left_edges == Canny(left)
      right_edges == Canny(right)
      diff == (left_edges \ right_edges) \cup (right_edges \ left_edges)
      total_edges == Cardinality(left_edges) + Cardinality(right_edges)
  IN  IF total_edges = 0 THEN Half
      ELSE Max(0, MulDiv(total_edges - Cardinality(diff), ScoreScale,
                         total_edges))

\* the hue bins ([18] over [0, 180)) a pixel of the model can fall in
UsedHueBins == { HSVOf(c)[1] \div 10 : c \in Colours }

\* the smallest grid cell _compare_pattern_distribution analyses
min_cell == 10

\* the score of grid cell (i, j): 1 / (1 + 0.01 * chi_sq) over the hue
\* histograms of the whole cell, each bin raised by 1
CellScore(left, right, i, j, grid_h, grid_w) ==
  LET cell == { p \in Pixels(left.w, left.h) :
                  /\ i * grid_h <= p[2] /\ p[2] < (i + 1) * grid_h
                  /\ j * grid_w <= p[1] /\ p[1] < (j + 1) * grid_w }
      hist(half, b) ==
        Cardinality({ p \in cell : HSVOf(half.image[p])[1] \div 10 = b }) + 1
      term(b) == Rat((hist(left, b) - hist(right, b))
                       * (hist(left, b) - hist(right, b)),
                     hist(left, b) + hist(right, b))
      RECURSIVE ChiSq(_)
      ChiSq(B) == IF B = {} THEN Rat(0, 1)
                  ELSE LET b == CHOOSE c \in B : TRUE
                       IN  RatAdd(term(b), ChiSq(B \ {b}))
      chi_sq == ChiSq(UsedHueBins)
  IN  MulDiv(100 * chi_sq[2], ScoreScale, 100 * chi_sq[2] + chi_sq[1])

\* the scores of the nine grid cells
CellScores(left, right) ==
  [k \in 0..8 |->
     CellScore(left, right, k \div 3, k % 3, left.h \div 3, left.w \div 3)]

\* a faulty variant: a grid too small to analyse scores 0
_compare_pattern_distribution_strict(left, right) ==
  LET grid_h == left.h \div 3
      grid_w == left.w \div 3
      cells == [k \in 0..8 |->
                  CellScore(left, right, k \div 3, k % 3, grid_h, grid_w)]
  IN  IF grid_h < min_cell \/ grid_w < min_cell THEN 0
      ELSE SumOf(cells, 0..8) \div 9

\* a faulty variant: the top row of the grid only
_compare_pattern_distribution_top(left, right) ==
  LET grid_h == left.h \div 3
      grid_w == left.w \div 3
      cells == [k \in 0..2 |->
                  CellScore(left, right, 0, k, grid_h, grid_w)]
  IN  IF grid_h < min_cell \/ grid_w < min_cell THEN Half
      ELSE SumOf(cells, 0..2) \div 3

_compare_pattern_distribution(left, right) ==
  LET grid_h == left.h \div 3
      grid_w == left.w \div 3
      cells == [k \in 0..8 |->
                  CellScore(left, right, k \div 3, k % 3, grid_h, grid_w)]
  IN  IF grid_h < min_cell \/ grid_w < min_cell THEN Half
      ELSE SumOf(cells, 0..8) \div 9

\* weights, in hundredths: histogram, structure, pattern distribution
symmetry_weights == <<40, 30, 30>>

SymmetryScores(left, right) ==
  << _compare_color_histograms(left, right),
     _compare_structure(left, right),
     _compare_pattern_distribution(left, right) >>

_calculate_symmetry_score(scores) ==
  LET sum == scores[1] * symmetry_weights[1] + scores[2] * symmetry_weights[2]
               + scores[3] * symmetry_weights[3]
      final_score == IF sum >= 0 THEN sum \div 100 ELSE -((-sum) \div 100)
  IN  Min(Max(final_score, 0), ScoreScale)

\* cv2.cvtColor, the first call of every comparison, refuses a buffer
\* without pixels (and None)
Empty(buf) == buf.w = 0 \/ buf.h = 0

\* a faulty variant: halves that could not be made are scored all the same
analyze_symmetry_unchecked(buf, turn) ==
  LET aligned == _align_fish(buf, turn)
      halves == _split_halves(aligned)
      scores == SymmetryScores(halves[1], halves[2])
  IN  IF aligned = None
      THEN Ok([score |-> Half, stage |-> "align", scores |-> <<>>])
      ELSE IF Empty(halves[1]) \/ Empty(halves[2])
      THEN Raise("cv2.error", "(-215:Assertion failed) !_src.empty()")
      ELSE Ok([score |-> _calculate_symmetry_score(scores),
               stage |-> "score", scores |-> scores])

\* score: the number returned; stage: how far the analysis went; scores: the
\* three sub-scores (<<>> when none was computed)
analyze_symmetry(buf, turn) ==
  LET aligned == _align_fish(buf, turn)
      halves == _split_halves(aligned)
      scores == SymmetryScores(halves[1], halves[2])
  IN  IF aligned = None
      THEN Ok([score |-> Half, stage |-> "align", scores |-> <<>>])
      ELSE IF halves[1] = None \/ halves[2] = None
      THEN Ok([score |-> Half, stage |-> "split", scores |-> <<>>])
      ELSE IF Empty(halves[1]) \/ Empty(halves[2])
      THEN Raise("cv2.error", "(-215:Assertion failed) !_src.empty()")
      ELSE Ok([score |-> _calculate_symmetry_score(scores),
               stage |-> "score", scores |-> scores])

----------------------------------------------------------------------------
(* The inputs of the symmetry engine.                                      *)

\* the narrowest image whose halves have grid cells of min_cell pixels
GridWidth == 2 * 3 * min_cell

GridHeight == 3 * min_cell

\* small images: w, h and the masked box <<x0, y0, x1, y1>> (x1, y1 excluded)
SmallShapes ==
  { [name |-> "blank",  w |-> 12, h |-> 12, box |-> <<0, 0, 0, 0>>],
    [name |-> "speck",  w |-> 12, h |-> 12, box |-> <<4, 4, 7, 7>>],
    [name |-> "sliver", w |-> 12, h |-> 12, box |-> <<5, 0, 6, 12>>],
    [name |-> "column", w |-> 1,  h |-> 12, box |-> <<0, 0, 1, 12>>],
    [name |-> "pair",   w |-> 2,  h |-> 12, box |-> <<0, 0, 2, 12>>],
    [name |-> "island", w |-> 12, h |-> 12, box |-> <<4, 0, 8, 12>>],
    [name |-> "flank",  w |-> 40, h |-> 4,  box |-> <<28, 0, 40, 4>>] }

\* large images, of even and odd width, the fish up to MaxInset pixels from
\* the border
LargeShapes ==
  { [name |-> "large", w |-> GridWidth + odd + 2 * k, h |-> GridHeight + 2 * k,
     box |-> <<k, k, GridWidth + odd + k, GridHeight + k>>] :
      odd \in {0, 1}, k \in 0..MaxInset }

Shapes == SmallShapes \cup LargeShapes

\* how the image is painted: white all over, or a patch colour on the left
\* third, on both outer thirds, on the middle rows, or as a checkerboard
Paints == {"plain", "left", "both", "band", "checker"}

PatchColours == {"red", "yellow"}

\* an image whose halves have grid cells of 10 rows and 16 columns; painted
\* "swapped", 35 pixels of every cell of the left half and the other 125
\* pixels of every cell of the right half have the patch colour
SwappedShape == [name |-> "swapped", w |-> 96, h |-> 30, box |-> <<0, 0, 96, 30>>]

Fishes ==
  { [shape |-> sh, paint |-> "plain", patch |-> "white"] : sh \in Shapes }
    \cup { [shape |-> sh, paint |-> pt, patch |-> c] :
             sh \in Shapes, pt \in Paints \ {"plain"}, c \in PatchColours }
    \cup { [shape |-> SwappedShape, paint |-> "swapped", patch |-> "yellow"] }

\* the image and the mask of a fish
BufferOf(fish) ==
  LET sh == fish.shape
      third == sh.w \div 3
      minor(x, y) == x < 3 \/ (x = 3 /\ y < 5)
      patched(p) ==
        \/ fish.paint = "left" /\ p[1] < third
        \/ fish.paint = "both" /\ (p[1] < third \/ p[1] >= sh.w - third)
        \/ fish.paint = "band" /\ sh.h <= 3 * p[2] /\ 3 * p[2] < 2 * sh.h
        \/ fish.paint = "checker" /\ (p[1] + p[2]) % 2 = 0
        \/ fish.paint = "swapped" /\ p[1] < sh.w \div 2
             /\ minor(p[1] % (sh.w \div 6), p[2] % (sh.h \div 3))
        \/ fish.paint = "swapped" /\ p[1] >= sh.w \div 2
             /\ ~minor((sh.w - 1 - p[1]) % (sh.w \div 6), p[2] % (sh.h \div 3))
  IN  [w |-> sh.w, h |-> sh.h,
       image |-> [p \in Pixels(sh.w, sh.h) |->
                    IF patched(p) THEN fish.patch ELSE "white"],
       mask |-> [p \in Pixels(sh.w, sh.h) |->
                   IF /\ sh.box[1] <= p[1] /\ p[1] < sh.box[3]
                      /\ sh.box[2] <= p[2] /\ p[2] < sh.box[4]
                   THEN 255 ELSE 0]]

\* the mask is wider than high, so that its principal axis is horizontal;
\* the quarter turn is taken where (new_w - w) / 2 is a whole number
OnItsSide(sh) ==
  /\ sh.box[3] - sh.box[1] > sh.box[4] - sh.box[2]
  /\ (sh.w - sh.h) % 2 = 0

\* the rotations cv2.PCACompute and cv2.warpAffine can give an upright fish,
\* and the quarter turn of a fish on its side;
\* a mask too small to align is not rotated
Turns(fish) ==
  IF Cardinality(Coords(BufferOf(fish))) < 10 THEN {"none"}
  ELSE {"none", "half", "emptied"}
         \cup (IF OnItsSide(fish.shape) THEN {"quarter"} ELSE {})

SymInit ==
  /\ SymIdle
  /\ SizeIdle
  /\ ColorIdle
  /\ RestIdle
  /\ SessionIdle

AnalyzeSymmetry ==
  /\ symOut.kind = "none"
  /\ \E fish \in Fishes :
       \E turn \in Turns(fish) :
         /\ symIn' = [shape |-> fish.shape, paint |-> fish.paint,
                      patch |-> fish.patch, turn |-> turn]
         /\ symOut' = analyze_symmetry(BufferOf(fish), turn)
  /\ UNCHANGED notSymVars

SymNext == AnalyzeSymmetry

SymSpec == SymInit /\ [][SymNext]_vars

----------------------------------------------------------------------------
(* Properties of the symmetry engine.                                      *)

SymmetryAnalyzed == symOut.kind # "none"

\* the set pixels of the mask that was analysed
SymmetryPoints == Cardinality(Coords(BufferOf(symIn)))

\* the halves the analysed fish was split into
AnalyzedHalves == _split_halves(_align_fish(BufferOf(symIn), symIn.turn))

\* C12: on a mask with fewer than 10 set pixels (the empty mask too)
\* analyze_symmetry returns exactly 0.5, whatever the image, without
\* aligning, splitting or scoring.
C12_FewPointsGiveNeutral ==
  (SymmetryAnalyzed /\ SymmetryPoints < 10) =>
    symOut = Ok([score |-> Half, stage |-> "align", scores |-> <<>>])

C12_Witness ==
  /\ SymmetryAnalyzed
  /\ SymmetryPoints = 9
  /\ symIn.paint = "checker"
  /\ symOut.kind = "ok" /\ symOut.val.score = Half

\* C13: for every image and mask analyze_symmetry returns a number in
\* [0, 1] and raises nothing, also when the mask is one or two columns wide
\* (a half of no width), touches the border, is clipped or emptied by the
\* rotation, or the image is a checkerboard.
C13_ScoreAlwaysInRange ==
  SymmetryAnalyzed =>
    /\ symOut.kind = "ok"
    /\ 0 <= symOut.val.score /\ symOut.val.score <= ScoreScale
    /\ symOut.val.stage = "score" =>
         \A k \in 1..3 : /\ 0 <= symOut.val.scores[k]
                         /\ symOut.val.scores[k] <= ScoreScale

\* a mask of 12 pixels in an image one column wide: the left half has no
\* width
C13_Witness ==
  /\ SymmetryAnalyzed
  /\ symIn.shape.w = 1 /\ SymmetryPoints >= 10
  /\ symIn.turn = "half"
  /\ symOut.kind = "ok"
  /\ symOut.val.stage = "split" /\ symOut.val.score = Half

\* the aligned left half equals the mirrored right half pixel for pixel
SymmetricHalves ==
  /\ symOut.kind = "ok" /\ symOut.val.stage = "score"
  /\ AnalyzedHalves[1].image = AnalyzedHalves[2].image

\* the score of the input reflected about its vertical axis
ReflectedScore == analyze_symmetry(Flip(BufferOf(symIn)), symIn.turn).val.score

\* C14 as stated: for halves that are mirror images of each other the score
\* is approximately 1.0 and unchanged by reflecting the input.
C14_SymmetricScoresOne ==
  (SymmetryAnalyzed /\ SymmetricHalves) =>
    /\ 100 * symOut.val.score >= 99 * ScoreScale
    /\ ReflectedScore = symOut.val.score

\* C14 amended: for halves that are mirror images of each other the
\* histogram sub-score is 1.0, the structure sub-score is 1.0 (the neutral
\* 0.5 when the halves have no edge pixel) and the pattern sub-score is 1.0
\* (the neutral 0.5 when a grid cell is under 10 pixels high or wide), so the
\* score is 0.4 + 0.3 * structure + 0.3 * pattern: 1.0, 0.85 or 0.7; it is
\* unchanged by reflecting the input about its vertical axis.
C14_SymmetricScore ==
  (SymmetryAnalyzed /\ SymmetricHalves) =>
    LET left == AnalyzedHalves[1]
        structure == IF Canny(left) = {} THEN Half ELSE ScoreScale
        pattern == IF left.h \div 3 < min_cell \/ left.w \div 3 < min_cell
                   THEN Half ELSE ScoreScale
    IN  /\ symOut.val.scores = <<ScoreScale, structure, pattern>>
        /\ symOut.val.score
             = (40 * ScoreScale + 30 * structure + 30 * pattern) \div 100
        /\ ReflectedScore = symOut.val.score

\* a large fish with a patch on both flanks scores 1.0
C14_Witness ==
  /\ SymmetryAnalyzed /\ SymmetricHalves
  /\ symIn.paint = "both" /\ symIn.turn = "none"
  /\ symOut.val.score = ScoreScale

\* the aligned and cropped buffers the halves were cut from
Aligned == _align_fish(BufferOf(symIn), symIn.turn)

\* the pixel of the canvas as a half shows it: black outside the mask
Shown(buf, p) == IF buf.mask[p] > 0 THEN buf.image[p] ELSE "black"

\* the halves left and right show the canvas: column i of left is column i,
\* column i of right is column w-1-i, black outside the mask
HalvesMirror(canvas, left, right) ==
  LET w == canvas.w
      mid == w \div 2
  IN  /\ left.w = mid /\ right.w = mid
      /\ left.h = right.h
      /\ mid > 0 => left.h = canvas.h
      /\ \A p \in Pixels(left.w, left.h) :
           /\ left.image[p] = Shown(canvas, p)
           /\ left.mask[p] = canvas.mask[p]
           /\ right.image[p] = Shown(canvas, <<w - 1 - p[1], p[2]>>)
           /\ right.mask[p] = canvas.mask[<<w - 1 - p[1], p[2]>>]
      /\ { p[1] : p \in Pixels(left.w, left.h) }
           \cup { w - 1 - p[1] : p \in Pixels(right.w, right.h) }
           = (0..(w - 1)) \ (IF mid = 0 THEN 0..(w - 1)
                             ELSE IF w % 2 = 1 THEN {mid} ELSE {})

HalvesOf(canvas) == <<canvas, _split_halves(canvas)>>

\* C24: _split_halves returns two halves of equal height and of equal width
\* floor(w/2); column i of the left half is column i of the canvas and
\* column i of the right half is column w-1-i of the canvas, so that an odd
\* width loses its centre column and nothing else; in each half the pixels
\* outside that half's own mask are zero.
C24_HalvesMirrorTheCanvas ==
  SymmetryAnalyzed =>
    \A cut \in { HalvesOf(Aligned) } :
      cut[1] # None => HalvesMirror(cut[1], cut[2][1], cut[2][2])

\* a fish of odd width with a patch on its left third only
C24_Witness ==
  /\ SymmetryAnalyzed /\ Aligned # None
  /\ Aligned.w % 2 = 1 /\ Aligned.w > 2
  /\ symIn.paint = "left"
  /\ AnalyzedHalves[1].image # AnalyzedHalves[2].image

\* every set pixel of the mask is sent into the new canvas
KeptInCanvas(buf, turn, center) ==
  \A p \in Coords(buf) :
    RotatedTo(buf, turn, center, p)
      \in Pixels(NewSize(buf, turn)[1], NewSize(buf, turn)[2])

AlignmentOf(buf, turn) ==
  [buf |-> buf, center |-> CenterOf(buf), aligned |-> _align_fish(buf, turn)]

\* C25: the alignment never clips the subject: for a mask of at least 10
\* set pixels and every rotation, every set pixel of the mask is sent to a
\* position inside the new_w by new_h canvas, also when the centroid of the
\* mask is not the centre of the image, so that the aligned and cropped mask
\* is never empty.
C25_AlignmentNeverClips ==
  (SymmetryAnalyzed /\ symIn.turn \in {"none", "half", "quarter"}) =>
    \A al \in { AlignmentOf(BufferOf(symIn), symIn.turn) } :
      al.aligned # None =>
        /\ KeptInCanvas(al.buf, symIn.turn, al.center)
        /\ Coords(al.aligned) # {}

\* the grid cells of the halves are under min_cell pixels high or wide
SmallGrid(left) == left.h \div 3 < min_cell \/ left.w \div 3 < min_cell

\* the hue histogram of grid cell k of a half, over the bins in use
CellHist(half, k) ==
  [b \in UsedHueBins |->
     Cardinality({ p \in Pixels(half.w, half.h) :
                     /\ p[2] \div (half.h \div 3) = k \div 3
                     /\ p[1] \div (half.w \div 3) = k % 3
                     /\ HSVOf(half.image[p])[1] \div 10 = b })]

PatternScore(left, right, score) ==
  IF SmallGrid(left) THEN score = Half
  ELSE LET cells == CellScores(left, right)
       IN  /\ score = SumOf(cells, 0..8) \div 9
           /\ \A k \in 0..8 : 0 < cells[k] /\ cells[k] <= ScoreScale
           /\ (\A k \in 0..8 : CellHist(left, k) = CellHist(right, k))
                => score = ScoreScale

----------------------------------------------------------------------------
(* The price predictor and the trainer's feature vector.                   *)
(* A metric is a whole number (of hundredths); the regression's output is  *)
(* a number or NaN.                                                        *)

\* PricePredictor._build_feature_vector
_build_feature_vector(mt) ==
  LET name == StrLower(mt.pattern_name)
  IN  << mt.size_cm,
         IF name = <<"o","g","o","n">> THEN 1 ELSE 0,
         IF name = <<"s","h","o","w","a">> THEN 1 ELSE 0,
         IF name = <<"k","o","h","a","k","u">> THEN 1 ELSE 0,
         mt.pattern_confidence,
         mt.color_white_pct,
         mt.color_red_pct,
         mt.color_black_pct,
         mt.color_quality_score,
         mt.symmetry_score >>

\* KoiPriceTrainer._build_feature_vector: the label is compared as given
KoiPriceTrainer_build_feature_vector(mt) ==
  LET name == mt.pattern_name
  IN  << mt.size_cm,
         IF name = <<"o","g","o","n">> THEN 1 ELSE 0,
         IF name = <<"s","h","o","w","a">> THEN 1 ELSE 0,
         IF name = <<"k","o","h","a","k","u">> THEN 1 ELSE 0,
         mt.pattern_confidence,
         mt.color_white_pct,
         mt.color_red_pct,
         mt.color_black_pct,
         mt.color_quality_score,
         mt.symmetry_score >>

\* KoiPriceTrainer.feature_names
feature_names ==
  << "size_cm", "pattern_ogon", "pattern_showa", "pattern_kohaku",
     "pattern_confidence", "color_white_pct", "color_red_pct",
     "color_black_pct", "color_quality_score", "symmetry_score" >>

Num(n) == [kind |-> "num", v |-> n]

NaN == [kind |-> "nan"]

\* Python's max(a, b) on floats: b only when b > a, so a when b is NaN
PyMax(a, b) == IF b.kind = "num" /\ a.kind = "num" /\ b.v > a.v THEN b ELSE a

\* PricePredictor.predict, a faulty variant: the regression's output as it is
predict_unclamped(model, mt) ==
  IF model.file = "missing"
    THEN Raise("FileNotFoundError", "Price prediction model not found")
  ELSE IF model.file = "corrupt"
    THEN Raise("RuntimeError", "Failed to load model")
  ELSE Ok(model.output)

\* PricePredictor.predict on the model file as it is on disk; model.output is
\* what the regression gives for the scaled feature vector
predict(model, mt) ==
  IF model.file = "missing"
    THEN Raise("FileNotFoundError", "Price prediction model not found")
  ELSE IF model.file = "corrupt"
    THEN Raise("RuntimeError", "Failed to load model")
  ELSE Ok(PyMax(Num(0), model.output))

\* PricePredictor.is_model_available
is_model_available(model) == model.file # "missing"

\* step 5 of appraise_koi: the price of the response
appraise_price(model, mt) ==
  IF is_model_available(model)
    THEN LET r == predict(model, mt)
         IN  IF r.kind = "ok" THEN [price |-> r.val, path |-> "predicted"]
             ELSE [price |-> Num(0), path |-> "failed"]
  ELSE [price |-> Num(0), path |-> "unavailable"]

----------------------------------------------------------------------------
(* The inputs of the price predictor.                                      *)

\* the largest amount, either side of zero, the regression gives
MaxRawPrice == 2

PatternLabels ==
  UNION { Recasings(s) : s \in { <<"o","g","o","n">>,
                                  <<"s","h","o","w","a">>,
                                  <<"k","o","h","a","k","u">>,
                                  <<"u","n","k","n","o","w","n">> } }

\* each metric has values of its own, so that a vector shows its order
MetricInputs ==
  [ pattern_name : PatternLabels,
    size_cm : {2500, 6000},
    pattern_confidence : {0, 90},
    color_white_pct : {50},
    color_red_pct : {30},
    color_black_pct : {20},
    color_quality_score : {70},
    symmetry_score : {85} ]

RawOutputs == { Num(n) : n \in (0 - MaxRawPrice)..MaxRawPrice } \cup { NaN }

Models ==
  { [file |-> "missing"], [file |-> "corrupt"] }
    \cup { [file |-> "trained", output |-> o] : o \in RawOutputs }

PriceInit ==
  /\ priceIn \in MetricInputs
  /\ features = [predict |-> <<>>, train |-> <<>>]
  /\ priceOut = [op |-> "none"]
  /\ SizeIdle
  /\ ColorIdle
  /\ SymIdle
  /\ CalibIdle
  /\ LazyIdle
  /\ RecalIdle
  /\ SessionIdle
  /\ AppraiseIdle

notPriceVars ==
  <<sizeVars, colorVars, symVars, calibVars, lazyVars, recalVars, sessionVars,
    appraiseVars>>

\* the predictor builds its vector of the metrics
PredictorBuildFeatureVector ==
  /\ features.predict = <<>>
  /\ features' = [features EXCEPT !.predict = _build_feature_vector(priceIn)]
  /\ UNCHANGED <<priceIn, priceOut, notPriceVars>>

\* the trainer builds its vector of the same metrics
TrainerBuildFeatureVector ==
  /\ features.train = <<>>
  /\ features' = [features EXCEPT
                    !.train = KoiPriceTrainer_build_feature_vector(priceIn)]
  /\ UNCHANGED <<priceIn, priceOut, notPriceVars>>

\* a direct call of PricePredictor.predict
Predict ==
  /\ priceOut.op = "none"
  /\ \E model \in Models :
       priceOut' = [op |-> "predict", model |-> model,
                    res |-> predict(model, priceIn)]
  /\ UNCHANGED <<priceIn, features, notPriceVars>>

\* the endpoint's price step, the four analyses having given the metrics
AppraisePrice ==
  /\ priceOut.op = "none"
  /\ \E model \in Models :
       priceOut' = [op |-> "appraise", model |-> model,
                    res |-> Ok(appraise_price(model, priceIn))]
  /\ UNCHANGED <<priceIn, features, notPriceVars>>

PriceNext ==
  \/ PredictorBuildFeatureVector
  \/ TrainerBuildFeatureVector
  \/ Predict
  \/ AppraisePrice

PriceSpec == PriceInit /\ [][PriceNext]_vars

----------------------------------------------------------------------------
(* Properties of the price predictor.                                      *)

BothVectorsBuilt == features.predict # <<>> /\ features.train # <<>>

\* the vector's entries are the metrics in the documented order
InFeatureOrder(v, mt) ==
  /\ Len(v) = Len(feature_names)
  /\ v[1] = mt.size_cm
  /\ v[2] \in {0, 1} /\ v[3] \in {0, 1} /\ v[4] \in {0, 1}
  /\ v[5] = mt.pattern_confidence
  /\ v[6] = mt.color_white_pct
  /\ v[7] = mt.color_red_pct
  /\ v[8] = mt.color_black_pct
  /\ v[9] = mt.color_quality_score
  /\ v[10] = mt.symmetry_score

\* C15: the feature vector has ten entries in the fixed order, and for the
\* same metrics, whatever the letter case of the pattern label, the vector
\* built at prediction time is the vector built at training time.
C15_VectorsAgree ==
  /\ features.predict # <<>> => InFeatureOrder(features.predict, priceIn)
  /\ features.train # <<>> => InFeatureOrder(features.train, priceIn)
  /\ BothVectorsBuilt => features.predict = features.train

\* C16: predict never returns a negative price, and the price of every
\* appraisal response is at least 0: 0.0 when the model is unavailable or the
\* prediction fails.
C16_PriceNeverNegative ==
  /\ priceOut.op = "predict" /\ priceOut.res.kind = "ok"
       => /\ priceOut.res.val.kind = "num"
          /\ priceOut.res.val.v >= 0
  /\ priceOut.op = "appraise"
       => /\ priceOut.res.kind = "ok"
          /\ priceOut.res.val.price.kind = "num"
          /\ priceOut.res.val.price.v >= 0
          /\ priceOut.res.val.path # "predicted"
               => priceOut.res.val.price = Num(0)
          /\ priceOut.model.file # "trained"
               => priceOut.res.val.path # "predicted"

\* a negative regression output was clamped in a response
C16_Witness ==
  /\ priceOut.op = "appraise"
  /\ priceOut.model.file = "trained"
  /\ priceOut.model.output.kind = "num"
  /\ priceOut.model.output.v < 0
  /\ priceOut.res.val.price = Num(0)

----------------------------------------------------------------------------
(* Loading the calibration, and the endpoint's colour step.                *)

\* the table without one band's ranges
Without(table, band) == [b \in DOMAIN table \ {band} |-> table[b]]

\* ColorAnalyzer._load_thresholds: the file's table when the file exists and
\* json.load succeeds, the defaults otherwise; it raises nothing
_load_thresholds(source) ==
  IF source.state = "parsed" THEN Ok(source.table)
  ELSE Ok(DEFAULT_COLOR_THRESHOLDS)

\* self.thresholds["white"], ["red"], ["black"], in the order analyze_colors
\* reads them: the first band the table lacks
MissingBand(table) ==
  IF "white" \notin DOMAIN table THEN "white"
  ELSE IF "red" \notin DOMAIN table THEN "red"
  ELSE IF "black" \notin DOMAIN table THEN "black"
  ELSE "none"

\* analyze_fish_colors on the analyzer's table: a table lacking a band is
\* found out when the band's mask is made, so not on an empty mask
analyze_fish_colors(table, image, mask, canny) ==
  IF CountNonZero(mask, image.len) > 0 /\ MissingBand(table) # "none"
    THEN Raise("KeyError", MissingBand(table))
  ELSE analyze_colors(table, image, mask, canny)

\* the colour values appraise_koi puts in place of a failed analysis
NeutralColors ==
  [white_pct |-> Rat(0, 1), red_pct |-> Rat(0, 1), black_pct |-> Rat(0, 1),
   quality_score |-> 0]

\* step 3 of appraise_koi
appraise_colors(table, image, mask, canny) ==
  LET r == analyze_fish_colors(table, image, mask, canny)
  IN  IF r.kind = "ok"
        THEN Ok([white_pct |-> r.val.white_pct, red_pct |-> r.val.red_pct,
                 black_pct |-> r.val.black_pct,
                 quality_score |-> r.val.quality_score])
      ELSE Ok(NeutralColors)

----------------------------------------------------------------------------
(* The calibration sources.                                                *)

CompleteTable(table) == MissingBand(table) = "none"

\* what the calibration file can hold: nothing readable, no JSON, a table,
\* or a table that lacks a band
CalibrationSources ==
  { [state |-> "absent"], [state |-> "unreadable"], [state |-> "unparsable"] }
    \cup { [state |-> "parsed", table |-> t] : t \in ThresholdTables }
    \cup { [state |-> "parsed", table |-> Without(t, b)] :
             t \in ThresholdTables, b \in Bands }

InvalidSource(source) ==
  \/ source.state \in {"unreadable", "unparsable"}
  \/ source.state = "parsed" /\ ~CompleteTable(source.table)

\* images of one run
SingleRuns == [1..1 -> RunKinds]

CannyFor(table, rs) ==
  IF CompleteTable(table) THEN CannyOutcomes(table, ImageOf(rs), MaskOf(rs))
  ELSE { <<0, 0>> }

CalibInit ==
  /\ calibration \in CalibrationSources
  /\ analyzer = NoResult
  /\ colorStep = [op |-> "none"]
  /\ SizeIdle
  /\ ColorIdle
  /\ SymIdle
  /\ PriceIdle
  /\ LazyIdle
  /\ RecalIdle
  /\ SessionIdle
  /\ AppraiseIdle

notCalibVars ==
  <<sizeVars, colorVars, symVars, priceVars, lazyVars, recalVars, sessionVars,
    appraiseVars>>

\* ColorAnalyzer.__init__
ConstructColorAnalyzer ==
  /\ analyzer.kind = "none"
  /\ analyzer' = _load_thresholds(calibration)
  /\ UNCHANGED <<calibration, colorStep, notCalibVars>>

\* a call of analyze_fish_colors
AnalyzeFishColors ==
  /\ analyzer.kind = "ok"
  /\ colorStep.op = "none"
  /\ \E rs \in SingleRuns :
       \E canny \in CannyFor(analyzer.val, rs) :
         colorStep' = [op |-> "analyze", rs |-> rs,
                       res |-> analyze_fish_colors(analyzer.val, ImageOf(rs),
                                                   MaskOf(rs), canny)]
  /\ UNCHANGED <<calibration, analyzer, notCalibVars>>

\* the endpoint's colour step
AppraiseColors ==
  /\ analyzer.kind = "ok"
  /\ colorStep.op = "none"
  /\ \E rs \in SingleRuns :
       \E canny \in CannyFor(analyzer.val, rs) :
         colorStep' = [op |-> "appraise", rs |-> rs,
                       res |-> appraise_colors(analyzer.val, ImageOf(rs),
                                               MaskOf(rs), canny)]
  /\ UNCHANGED <<calibration, analyzer, notCalibVars>>

CalibNext ==
  \/ ConstructColorAnalyzer
  \/ AnalyzeFishColors
  \/ AppraiseColors

CalibSpec == CalibInit /\ [][CalibNext]_vars

----------------------------------------------------------------------------
(* Properties of the calibration.                                          *)

\* C17: when the calibration source exists but is unreadable, unparsable or
\* lacks a band's ranges, loading the thresholds or the colour analysis gives
\* an error, and neither the analyzer nor the endpoint puts other thresholds
\* or neutral colour values in its place.
C17_InvalidCalibrationFailsFast ==
  InvalidSource(calibration) =>
    /\ analyzer.kind = "ok" =>
         /\ calibration.state = "parsed"
         /\ analyzer.val = calibration.table
    /\ colorStep.op # "none" => colorStep.res.kind \notin {"ok", "none"}

----------------------------------------------------------------------------
(* The lazily initialised shared objects: the module-level instances behind *)
(* get_size_detector, get_color_analyzer, get_pattern_detector and          *)
(* get_price_predictor, and the model handles behind the properties         *)
(* koi_segment_model, coin_detect_model and PatternDetector.model.  Each is *)
(* `if x is None: x = C()` followed by `return x`, with no lock; a caller   *)
(* is a thread, and another thread can run between any two of its steps.    *)
(* An instance is named by the order of its construction: 1, 2, ...         *)

\* the number of concurrent first callers
MaxCallers == 2

Callers == 1..MaxCallers

Slots ==
  { "_size_detector", "_color_analyzer", "_pattern_detector",
    "_price_predictor", "_koi_segment_model", "_coin_detect_model",
    "_model" }

\* a caller that is in no getter
Outside == [at |-> "outside", slot |-> "none", new |-> 0, got |-> 0]

LazyInit ==
  /\ global = [s \in Slots |-> 0]
  /\ constructed = [s \in Slots |-> 0]
  /\ caller = [t \in Callers |-> Outside]
  /\ SizeIdle
  /\ ColorIdle
  /\ SymIdle
  /\ PriceIdle
  /\ CalibIdle
  /\ RecalIdle
  /\ SessionIdle
  /\ AppraiseIdle

notLazyVars ==
  <<sizeVars, colorVars, symVars, priceVars, calibVars, recalVars, sessionVars,
    appraiseVars>>

\* a caller enters a getter
Enter(t) ==
  /\ caller[t].at = "outside"
  /\ caller[t].got = 0
  /\ \E s \in Slots :
       caller' = [caller EXCEPT ![t] = [Outside EXCEPT !.at = "test",
                                                       !.slot = s]]
  /\ UNCHANGED <<global, constructed, notLazyVars>>

\* `if x is None:`
TestNone(t) ==
  /\ caller[t].at = "test"
  /\ caller' = [caller EXCEPT
                  ![t].at = IF global[caller[t].slot] = 0 THEN "construct"
                            ELSE "return"]
  /\ UNCHANGED <<global, constructed, notLazyVars>>

\* the right-hand side of `x = C()`: the constructor runs
Construct(t) ==
  LET s == caller[t].slot
  IN  /\ caller[t].at = "construct"
      /\ constructed' = [constructed EXCEPT ![s] = constructed[s] + 1]
      /\ caller' = [caller EXCEPT ![t].at = "store",
                                  ![t].new = constructed[s] + 1]
      /\ UNCHANGED <<global, notLazyVars>>

\* the assignment of `x = C()`
Store(t) ==
  /\ caller[t].at = "store"
  /\ global' = [global EXCEPT ![caller[t].slot] = caller[t].new]
  /\ caller' = [caller EXCEPT ![t].at = "return"]
  /\ UNCHANGED <<constructed, notLazyVars>>

\* `return x`
Return(t) ==
  /\ caller[t].at = "return"
  /\ caller' = [caller EXCEPT ![t].at = "outside",
                              ![t].got = global[caller[t].slot]]
  /\ UNCHANGED <<global, constructed, notLazyVars>>

LazyNext ==
  \E t \in Callers :
    \/ Enter(t)
    \/ TestNone(t)
    \/ Construct(t)
    \/ Store(t)
    \/ Return(t)

LazySpec == LazyInit /\ [][LazyNext]_vars

----------------------------------------------------------------------------
(* Properties of the lazily initialised objects.                           *)

Returned(t) == caller[t].at = "outside" /\ caller[t].got # 0

\* C18: under any interleaving of concurrent first callers each shared
\* object is constructed at most once, and all callers of a getter obtain
\* the same instance.
C18_ConstructedAtMostOnce ==
  /\ \A s \in Slots : constructed[s] <= 1
  /\ \A t, u \in Callers :
       Returned(t) /\ Returned(u) /\ caller[t].slot = caller[u].slot
         => caller[t].got = caller[u].got

----------------------------------------------------------------------------
(* Recalibration while an analysis runs: save_thresholds on one thread and *)
(* analyze_colors on another.  analyze_colors reads self.thresholds once   *)
(* for each band's mask; save_thresholds writes the file and then assigns  *)
(* self.thresholds.                                                        *)

\* how many times save_thresholds is called
MaxSaves == 1

NoMasks == [white |-> <<>>, red |-> <<>>, black |-> <<>>]

NotAnalyzing == [at |-> "idle", rs |-> <<>>, used |-> <<>>, masks |-> NoMasks]

NotSaving == [at |-> "idle", new |-> <<>>, saves |-> 0]

RecalInit ==
  /\ shared \in ThresholdTables
  /\ analysis = NotAnalyzing
  /\ saver = NotSaving
  /\ SizeIdle
  /\ ColorIdle
  /\ SymIdle
  /\ PriceIdle
  /\ CalibIdle
  /\ LazyIdle
  /\ SessionIdle
  /\ AppraiseIdle

notRecalVars ==
  <<sizeVars, colorVars, symVars, priceVars, calibVars, lazyVars, sessionVars,
    appraiseVars>>

\* analyze_colors is called on an image with a mask that is not empty
BeginAnalysis ==
  /\ analysis.at = "idle"
  /\ \E rs \in SingleRuns :
       /\ CountNonZero(MaskOf(rs), ImageOf(rs).len) > 0
       /\ analysis' = [NotAnalyzing EXCEPT !.at = "white", !.rs = rs]
  /\ UNCHANGED <<shared, saver, notRecalVars>>

\* the fish region in HSV of the image under analysis
AnalysisHSV == fish_region_hsv(ImageOf(analysis.rs).hsv, MaskOf(analysis.rs))

\* white_mask = self._create_white_mask(hsv, mask)
CreateWhiteMask ==
  /\ analysis.at = "white"
  /\ analysis' = [analysis EXCEPT
       !.at = "red",
       !.used = Append(@, shared),
       !.masks.white = _create_white_mask(shared, AnalysisHSV,
                                          MaskOf(analysis.rs))]
  /\ UNCHANGED <<shared, saver, notRecalVars>>

\* red_mask = self._create_red_mask(hsv, mask)
CreateRedMask ==
  /\ analysis.at = "red"
  /\ analysis' = [analysis EXCEPT
       !.at = "black",
       !.used = Append(@, shared),
       !.masks.red = _create_red_mask(shared, AnalysisHSV,
                                      MaskOf(analysis.rs))]
  /\ UNCHANGED <<shared, saver, notRecalVars>>

\* black_mask = self._create_black_mask(hsv, mask)
CreateBlackMask ==
  /\ analysis.at = "black"
  /\ analysis' = [analysis EXCEPT
       !.at = "done",
       !.used = Append(@, shared),
       !.masks.black = _create_black_mask(shared, AnalysisHSV,
                                          MaskOf(analysis.rs))]
  /\ UNCHANGED <<shared, saver, notRecalVars>>

\* save_thresholds is called with a table; json.dump writes the file
BeginSave ==
  /\ saver.at = "idle"
  /\ saver.saves < MaxSaves
  /\ \E table \in ThresholdTables :
       saver' = [saver EXCEPT !.at = "assign", !.new = table]
  /\ UNCHANGED <<shared, analysis, notRecalVars>>

\* self.thresholds = thresholds
AssignThresholds ==
  /\ saver.at = "assign"
  /\ shared' = saver.new
  /\ saver' = [saver EXCEPT !.at = "idle", !.saves = @ + 1]
  /\ UNCHANGED <<analysis, notRecalVars>>

RecalNext ==
  \/ BeginAnalysis
  \/ CreateWhiteMask
  \/ CreateRedMask
  \/ CreateBlackMask
  \/ BeginSave
  \/ AssignThresholds

RecalSpec == RecalInit /\ [][RecalNext]_vars

----------------------------------------------------------------------------
(* Properties of recalibration.                                            *)

\* the three masks as analyze_colors makes them of one table
MasksOf(table) ==
  [white |-> _create_white_mask(table, AnalysisHSV, MaskOf(analysis.rs)),
   red   |-> _create_red_mask(table, AnalysisHSV, MaskOf(analysis.rs)),
   black |-> _create_black_mask(table, AnalysisHSV, MaskOf(analysis.rs))]

\* C19: when save_thresholds runs concurrently with analyze_colors, one
\* analysis computes its white, red and black masks all from the old table or
\* all from the new one, never from a mix.
C19_RecalibrationIsAtomic ==
  analysis.at = "done" =>
    /\ \A i, j \in 1..Len(analysis.used) : analysis.used[i] = analysis.used[j]
    /\ \E table \in ThresholdTables : analysis.masks = MasksOf(table)

----------------------------------------------------------------------------
(* Sequences of engine calls on one set of buffers.  The caller holds an   *)
(* image and a mask for the colour engine, an image and a mask for the     *)
(* symmetry engine, a pixel count and a scale; the analyzer holds its      *)
(* table.  Each call gives a result and leaves the buffers as the code     *)
(* leaves them.  What cv2.Canny and the PCA make of a buffer is a function *)
(* of the buffer, so it is held with the buffer.                           *)

\* how many engine calls a sequence has
MaxCalls == 3

Engines == {"analyze_colors", "analyze_symmetry", "calculate_fish_size"}

\* analyze_colors, a faulty variant: the fish region is written into the
\* caller's image (cv2.bitwise_and with dst=image)
analyze_colors_in_place(b) ==
  [b EXCEPT !.color.image.hsv = fish_region_hsv(b.color.image.hsv,
                                                b.color.mask)]

\* the buffers after analyze_colors: cv2.bitwise_and, cv2.cvtColor and
\* cv2.inRange allocate their results, the scores are computed on those, and
\* self.thresholds is only read
analyze_colors_buffers(b) == b

\* the buffers after analyze_symmetry: np.argwhere, cv2.warpAffine, cv2.flip
\* and cv2.bitwise_and allocate their results; the halves are views of the
\* warped copy
analyze_symmetry_buffers(b) == b

\* the buffers after calculate_fish_size: it computes on two numbers
calculate_fish_size_buffers(b) == b

\* the result of an engine on the buffers
EngineResult(e, b) ==
  IF e = "analyze_colors"
    THEN analyze_colors(b.table, b.color.image, b.color.mask, b.color.canny)
  ELSE IF e = "analyze_symmetry"
    THEN LET r == analyze_symmetry(b.sym.buffer, b.sym.turn)
         IN  IF r.kind = "ok" THEN Ok(r.val.score) ELSE r
  ELSE calculate_fish_size(b.size.fish_pixel_count, b.size.ppc)

----------------------------------------------------------------------------
(* The buffers of a sequence of calls.                                     *)

\* images of a masked pixel and a pixel outside the mask
SessionImages ==
  { rs \in [1..2 -> RunKinds] :
      /\ rs[1].mask = 1 /\ rs[1].n = 1
      /\ rs[1].hsv \in { <<5, 200, 200>>, <<90, 100, 40>> }
      /\ rs[2].mask = 0 /\ rs[2].n = 1 }

SessionFishes ==
  { f \in Fishes :
      /\ f.shape.name \in {"speck", "island"}
      /\ f.paint \in {"plain", "left"}
      /\ f.patch \in {"white", "red"} }

SessionBuffers ==
  { [color |-> [image |-> ImageOf(rs), mask |-> MaskOf(rs), canny |-> canny],
     table |-> table,
     sym   |-> [buffer |-> BufferOf(f), turn |-> turn],
     size  |-> [fish_pixel_count |-> n, ppc |-> Rat(ScenarioDiameterPx, 1)]] :
      rs \in SessionImages, canny \in { <<0, 0>> }, table \in ThresholdTables,
      f \in SessionFishes, turn \in { "none" }, n \in { 0, MaxSmallFish } }

NotCalled == [e \in Engines |-> NoResult]

SessionInit ==
  /\ given \in SessionBuffers
  /\ buffers = given
  /\ outcome = [n |-> 0, engine |-> "none", res |-> NoResult,
                first |-> NotCalled]
  /\ SizeIdle
  /\ ColorIdle
  /\ SymIdle
  /\ RestIdle

notSessionVars == <<sizeVars, colorVars, symVars, restVars>>

\* the outcome once engine e has given res
Recorded(e, res) ==
  [n |-> outcome.n + 1, engine |-> e, res |-> res,
   first |-> IF outcome.first[e] = NoResult
             THEN [outcome.first EXCEPT ![e] = res]
             ELSE outcome.first]

\* analyze_colors on the buffers as they are
AnalyzeColorsCall ==
  /\ outcome.n < MaxCalls
  /\ outcome' = Recorded("analyze_colors",
                         EngineResult("analyze_colors", buffers))
  /\ buffers' = analyze_colors_buffers(buffers)
  /\ UNCHANGED <<given, notSessionVars>>

\* analyze_symmetry on the buffers as they are
AnalyzeSymmetryCall ==
  /\ outcome.n < MaxCalls
  /\ outcome' = Recorded("analyze_symmetry",
                         EngineResult("analyze_symmetry", buffers))
  /\ buffers' = analyze_symmetry_buffers(buffers)
  /\ UNCHANGED <<given, notSessionVars>>

\* calculate_fish_size on the buffers as they are
CalculateFishSizeCall ==
  /\ outcome.n < MaxCalls
  /\ outcome' = Recorded("calculate_fish_size",
                         EngineResult("calculate_fish_size", buffers))
  /\ buffers' = calculate_fish_size_buffers(buffers)
  /\ UNCHANGED <<given, notSessionVars>>

SessionNext ==
  \/ AnalyzeColorsCall
  \/ AnalyzeSymmetryCall
  \/ CalculateFishSizeCall

SessionSpec == SessionInit /\ [][SessionNext]_vars

----------------------------------------------------------------------------
(* Properties of sequences of calls.                                       *)

----------------------------------------------------------------------------
(* The appraise endpoint, appraise_koi.  A request is the upload together  *)
(* with what the collaborators make of it: the two detectors, the pattern  *)
(* classifier, the colour table and image, the symmetry engine and the     *)
(* price model.  The handler goes through its stages in order; it ends    *)
(* with an HTTP status and a body or a detail, and calls lists what it     *)
(* invoked, in order.                                                      *)

StartsWith(s, prefix) ==
  /\ Len(s) >= Len(prefix)
  /\ SubSeq(s, 1, Len(prefix)) = prefix

\* `not image.content_type or not image.content_type.startswith("image/")`,
\* a faulty variant: a missing content type is let through
InvalidFileType_lenient(content_type) ==
  /\ content_type.set
  /\ ~StartsWith(content_type.val, <<"i","m","a","g","e","/">>)

\* `not image.content_type or not image.content_type.startswith("image/")`
InvalidFileType(content_type) ==
  \/ ~content_type.set
  \/ content_type.val = <<>>
  \/ ~StartsWith(content_type.val, <<"i","m","a","g","e","/">>)

HTTPException(status_code, detail, calls) ==
  [at |-> "done", status |-> status_code, detail |-> detail, body |-> <<>>,
   calls |-> calls]

\* step 2 of appraise_koi
appraise_pattern(pattern) ==
  IF pattern.kind = "ok" THEN pattern.val
  ELSE [pattern_name |-> <<"u","n","k","n","o","w","n">>,
        pattern_confidence |-> 0]

\* step 4 of appraise_koi, a faulty variant: a failed symmetry analysis is
\* passed on as a score below the range
appraise_symmetry_failing(symmetry) ==
  IF symmetry.kind = "ok" THEN symmetry.val ELSE 0 - 1

\* step 4 of appraise_koi
appraise_symmetry(symmetry) ==
  IF symmetry.kind = "ok" THEN symmetry.val ELSE Half

\* the bounds of AppraisalResponse; a confidence is in hundredths
SchemaValid(body) ==
  /\ 0 <= body.size_cm
  /\ 0 <= body.pattern_confidence /\ body.pattern_confidence <= 100
  /\ \A pct \in { body.color_white_pct, body.color_red_pct,
                  body.color_black_pct } :
       RatLeq(Rat(0, 1), pct) /\ RatLeq(pct, Rat(100, 1))
  /\ 0 <= body.color_quality_score /\ body.color_quality_score <= ScoreScale
  /\ 0 <= body.symmetry_score /\ body.symmetry_score <= ScoreScale
  /\ body.predicted_price.kind = "num" /\ body.predicted_price.v >= 0

\* the handler at the start of a stage, and when it has responded
Running(at, body, calls) ==
  [at |-> at, status |-> 0, detail |-> <<>>, body |-> body, calls |-> calls]

Responded(status_code, body, calls) ==
  [at |-> "done", status |-> status_code, detail |-> <<>>, body |-> body,
   calls |-> calls]

\* step 1 of appraise_koi, a faulty variant: every failure of the size
\* detection is reported as an internal error
size_failure_rewritten(size, calls) ==
  HTTPException(500, <<"Error processing image", size.val>>, calls)

\* step 1 of appraise_koi: what a failed size detection is turned into
size_failure(size, calls) ==
  IF size.kind = "ValueError"
    THEN HTTPException(422, <<"Size detection failed", size.val>>, calls)
  ELSE IF size.kind = "FileNotFoundError"
    THEN HTTPException(503, <<"Model not available", size.val>>, calls)
  ELSE HTTPException(500, <<"Error processing image", size.val>>, calls)

----------------------------------------------------------------------------
(* The requests.                                                           *)

NoContentType == [set |-> FALSE, val |-> <<>>]

ContentType(s) == [set |-> TRUE, val |-> s]

ContentTypes ==
  { NoContentType,
    ContentType(<<>>),
    ContentType(<<"t","e","x","t","/","p","l","a","i","n">>),
    ContentType(<<"i","m","a","g","e">>),
    ContentType(<<"I","m","a","g","e","/","p","n","g">>),
    ContentType(<<"i","m","a","g","e","/">>),
    ContentType(<<"i","m","a","g","e","/","p","n","g">>) }

\* the detectors' outcomes on an upload: a model file missing, nothing found,
\* a fish with a coin of a known class, of an unknown class, or of no width
UploadFishes ==
  { f \in FishOutcomes : f.found => f.pixels = MaxSmallFish }

UploadBoxes ==
  { <<BoxOrigin[1], BoxOrigin[2], BoxOrigin[1] + d, BoxOrigin[2] + d>> :
      d \in {0, 2 * ScenarioDiameterPx} }

UploadCoins ==
  { [model |-> FALSE, found |-> FALSE, class_name |-> <<>>,
     bbox |-> <<0, 0, 0, 0>>],
    CoinIdle }
    \cup { [model |-> TRUE, found |-> TRUE, class_name |-> l, bbox |-> b] :
             l \in { <<"1","p","e","s","o","_","n","e","w">>,
                     <<"c","o","i","n">> },
             b \in UploadBoxes }

PatternOutcomes ==
  { Ok([pattern_name |-> <<"k","o","h","a","k","u">>,
        pattern_confidence |-> 90]),
    Raise("FileNotFoundError", "Pattern classification model not found"),
    Raise("RuntimeError", "Pattern detection failed") }

SymmetryOutcomes ==
  { Ok(0), Ok(ScoreScale), Raise("cv2.error", "Symmetry analysis failed") }

\* a red pixel under the mask
RedPixel == [i \in 1..1 |-> [hsv |-> <<5, 200, 200>>, mask |-> 1, n |-> 1]]

UploadTables ==
  { DEFAULT_COLOR_THRESHOLDS, Without(DEFAULT_COLOR_THRESHOLDS, "red") }

\* every upload with every outcome of the detectors, the later stages
\* succeeding; and a good upload with every outcome of the later stages
Requests ==
  [ content_type : ContentTypes,
    contents : {"image", "garbage"},
    fish : UploadFishes,
    coin : UploadCoins,
    pattern : { Ok([pattern_name |-> <<"k","o","h","a","k","u">>,
                    pattern_confidence |-> 90]) },
    table : { DEFAULT_COLOR_THRESHOLDS },
    rs : { RedPixel },
    symmetry : { Ok(ScoreScale) },
    model : { [file |-> "missing"] } ]
  \cup
  [ content_type : { ContentType(<<"i","m","a","g","e","/","p","n","g">>) },
    contents : {"image"},
    fish : { f \in UploadFishes : f.found },
    coin : { c \in UploadCoins : c.found },
    pattern : PatternOutcomes,
    table : UploadTables,
    rs : { RedPixel },
    symmetry : SymmetryOutcomes,
    model : Models ]

AppraiseInit ==
  /\ appraiseIn = <<>>
  /\ appraiseOut = <<>>
  /\ SizeIdle
  /\ ColorIdle
  /\ SymIdle
  /\ PriceIdle
  /\ CalibIdle
  /\ LazyIdle
  /\ RecalIdle
  /\ SessionIdle

notAppraiseVars == <<sizeVars, colorVars, symVars, priceVars, calibVars,
                     lazyVars, recalVars, sessionVars>>

\* a request arrives and its content type is looked at
ValidateUpload ==
  /\ appraiseIn = <<>>
  /\ \E req \in Requests :
       /\ appraiseIn' = req
       /\ appraiseOut' =
            IF InvalidFileType(req.content_type)
              THEN HTTPException(400, <<"Invalid file type">>, << >>)
            ELSE Running("read", <<>>, << >>)
  /\ UNCHANGED notAppraiseVars

\* await image.read() and _read_image_from_upload
ReadUpload ==
  /\ appraiseIn # <<>>
  /\ appraiseOut.at = "read"
  /\ appraiseOut' =
       IF appraiseIn.contents # "image"
         THEN HTTPException(500, <<"Error processing image",
                                   "Could not decode image">>,
                            appraiseOut.calls \o << "read" >>)
       ELSE Running("size", <<>>, appraiseOut.calls \o << "read" >>)
  /\ UNCHANGED <<appraiseIn, notAppraiseVars>>

\* 1. Size detection
SizeStage ==
  /\ appraiseIn # <<>>
  /\ appraiseOut.at = "size"
  /\ LET size == detect_size(appraiseIn.fish, appraiseIn.coin)
         calls == appraiseOut.calls \o << "detect_fish_size" >>
     IN  appraiseOut' =
           IF size.kind # "ok" THEN size_failure(size, calls)
           ELSE Running("pattern", [size_cm |-> size.val.size_cm], calls)
  /\ UNCHANGED <<appraiseIn, notAppraiseVars>>

\* 2. Pattern recognition
PatternStage ==
  /\ appraiseIn # <<>>
  /\ appraiseOut.at = "pattern"
  /\ appraiseOut' =
       Running("color", appraiseOut.body @@ appraise_pattern(appraiseIn.pattern),
               appraiseOut.calls \o << "classify_koi_pattern" >>)
  /\ UNCHANGED <<appraiseIn, notAppraiseVars>>

\* 3. Color analysis
ColorFields(colors) ==
  [color_white_pct |-> colors.white_pct,
   color_red_pct |-> colors.red_pct,
   color_black_pct |-> colors.black_pct,
   color_quality_score |-> colors.quality_score]

ColorStage ==
  /\ appraiseIn # <<>>
  /\ appraiseOut.at = "color"
  /\ appraiseOut' =
       Running("symmetry",
               appraiseOut.body
                 @@ ColorFields(appraise_colors(appraiseIn.table,
                                                ImageOf(appraiseIn.rs),
                                                MaskOf(appraiseIn.rs),
                                                <<0, 0>>).val),
               appraiseOut.calls \o << "analyze_fish_colors" >>)
  /\ UNCHANGED <<appraiseIn, notAppraiseVars>>

\* 4. Symmetry analysis
SymmetryStage ==
  /\ appraiseIn # <<>>
  /\ appraiseOut.at = "symmetry"
  /\ appraiseOut' =
       Running("price",
               appraiseOut.body
                 @@ [symmetry_score |-> appraise_symmetry(appraiseIn.symmetry)],
               appraiseOut.calls \o << "analyze_fish_symmetry" >>)
  /\ UNCHANGED <<appraiseIn, notAppraiseVars>>

\* 5. Price prediction, and the response, which AppraisalResponse validates
PriceStage ==
  /\ appraiseIn # <<>>
  /\ appraiseOut.at = "price"
  /\ LET price == appraise_price(appraiseIn.model, appraiseOut.body).price
         body == appraiseOut.body @@ [predicted_price |-> price]
         calls == appraiseOut.calls \o << "get_price_predictor" >>
                    \o (IF is_model_available(appraiseIn.model)
                          THEN << "predict" >> ELSE << >>)
     IN  appraiseOut' =
           IF SchemaValid(body) THEN Responded(200, body, calls)
           ELSE HTTPException(500, <<"Error processing image",
                                     "ValidationError">>, calls)
  /\ UNCHANGED <<appraiseIn, notAppraiseVars>>

AppraiseNext ==
  \/ ValidateUpload
  \/ ReadUpload
  \/ SizeStage
  \/ PatternStage
  \/ ColorStage
  \/ SymmetryStage
  \/ PriceStage

AppraiseSpec == AppraiseInit /\ [][AppraiseNext]_vars

----------------------------------------------------------------------------
(* Properties of the endpoint.                                             *)

\* the handler has responded
Appraised == appraiseIn # <<>> /\ appraiseOut.at = "done"

\* C21: an upload whose content type is missing or does not start with
\* 'image/' is rejected with HTTP 400 before the file is read and before any
\* engine or model is invoked.
C21_InvalidFileTypeRejected ==
  Appraised =>
    ( ( \/ ~appraiseIn.content_type.set
        \/ ~StartsWith(appraiseIn.content_type.val,
                       <<"i","m","a","g","e","/">>) )
      => /\ appraiseOut.status = 400
         /\ appraiseOut.calls = << >> )

\* a text upload was rejected
C21_Witness ==
  /\ Appraised
  /\ appraiseIn.content_type.set
  /\ appraiseIn.content_type.val = <<"t","e","x","t","/","p","l","a","i","n">>
  /\ appraiseIn.contents = "image"
  /\ appraiseOut.status = 400

\* why the size detection gives no size: the upstream kinds, the
\* configuration error, or "none" of them
Cause(fish, coin) ==
  IF ~fish.model THEN "model_missing"
  ELSE IF ~fish.found THEN "fish_not_found"
  ELSE IF ~coin.model THEN "model_missing"
  ELSE IF ~coin.found THEN "coin_not_found"
  ELSE IF normalize_coin_class(coin.class_name).kind # "ok"
    THEN "unknown_class"
  ELSE "none"

Upstream == {"model_missing", "fish_not_found", "coin_not_found"}

\* what the orchestrator sees of an exception, and the caller of a response
Raised(r) == <<r.kind, r.val>>

Returned422(r) == <<r.status, r.detail>>

SizeStageReached ==
  /\ Appraised
  /\ ~InvalidFileType(appraiseIn.content_type)
  /\ appraiseIn.contents = "image"

\* what detect_size gives for every outcome of the two detectors
SizeOutcomes ==
  { [fish |-> fish, coin |-> coin, cause |-> Cause(fish, coin),
     raised |-> detect_size(fish, coin)] :
      fish \in UploadFishes, coin \in UploadCoins }

\* a failure of the size stage, as raised and as returned, differs from
\* those of every other upstream cause and of an unknown coin class
DiffersFromOthers(cause, raised, returned) ==
  \A other \in SizeOutcomes :
    other.cause \in (Upstream \cup {"unknown_class"}) \ {cause}
      => /\ Raised(other.raised) # Raised(raised)
         /\ Returned422(size_failure(other.raised, returned.calls))
              # Returned422(returned)

UpstreamFailure(cause, raised, returned) ==
  cause \in Upstream =>
    /\ raised.kind # "ok"
    /\ returned.body = <<>>
    /\ returned.status = (IF cause = "model_missing" THEN 503 ELSE 422)
    /\ DiffersFromOthers(cause, raised, returned)

SizeSucceeded ==
  /\ SizeStageReached
  /\ detect_size(appraiseIn.fish, appraiseIn.coin).kind = "ok"

ColorsFailed ==
  analyze_fish_colors(appraiseIn.table, ImageOf(appraiseIn.rs),
                      MaskOf(appraiseIn.rs), <<0, 0>>).kind # "ok"

PriceFailed ==
  \/ ~is_model_available(appraiseIn.model)
  \/ predict(appraiseIn.model, appraiseIn).kind # "ok"

\* C23: once size detection has succeeded, a failing pattern, colour,
\* symmetry or price stage never fails the request: its neutral value is
\* substituted, the later stages run in the order pattern, colour, symmetry,
\* price, and the response is a success within the schema's bounds.
C23_LaterFailuresAreNeutral ==
  SizeSucceeded =>
    /\ appraiseOut.status = 200
    /\ SubSeq(appraiseOut.calls, 1, 6) =
         << "read", "detect_fish_size", "classify_koi_pattern",
            "analyze_fish_colors", "analyze_fish_symmetry",
            "get_price_predictor" >>
    /\ SchemaValid(appraiseOut.body)
    /\ appraiseIn.pattern.kind # "ok" =>
         /\ appraiseOut.body.pattern_name = <<"u","n","k","n","o","w","n">>
         /\ appraiseOut.body.pattern_confidence = 0
    /\ ColorsFailed =>
         /\ appraiseOut.body.color_white_pct = Rat(0, 1)
         /\ appraiseOut.body.color_red_pct = Rat(0, 1)
         /\ appraiseOut.body.color_black_pct = Rat(0, 1)
         /\ appraiseOut.body.color_quality_score = 0
    /\ appraiseIn.symmetry.kind # "ok" =>
         appraiseOut.body.symmetry_score = Half
    /\ PriceFailed => appraiseOut.body.predicted_price = Num(0)

\* every stage after the size detection failed
C23_Witness ==
  /\ SizeSucceeded
  /\ appraiseIn.pattern.kind # "ok"
  /\ ColorsFailed
  /\ appraiseIn.symmetry.kind # "ok"
  /\ appraiseIn.model.file = "corrupt"
  /\ appraiseOut.status = 200

----------------------------------------------------------------------------
(* Saving the calibration: ColorAnalyzer.save_thresholds, and an analyzer  *)
(* constructed afterwards from the same path.  A bound of a table in       *)
(* memory is a Python list, a tuple or a numpy array of three numbers; the *)
(* file holds a JSON document, whose arrays json.load returns as lists.    *)

\* the table with every bound held as a list, a tuple or an ndarray
Typed(table, py) ==
  [b \in DOMAIN table |->
     [k \in DOMAIN table[b] |-> [py |-> py, items |-> table[b][k]]]]

\* json.dump(thresholds, f, indent=2): lists and tuples are written as
\* arrays, an ndarray is refused
json_dump(obj) ==
  IF \E b \in DOMAIN obj : \E k \in DOMAIN obj[b] : obj[b][k].py = "ndarray"
    THEN Raise("TypeError", "Object of type ndarray is not JSON serializable")
  ELSE Ok([b \in DOMAIN obj |->
             [k \in DOMAIN obj[b] |-> obj[b][k].items]])

\* json.load(f): every array becomes a list
json_load(doc) == Typed(doc, "list")

\* what a call leaves behind: self.thresholds, the file, and what it raised
Saved(table, file, res) == [thresholds |-> table, file |-> file, res |-> res]

\* a faulty variant: the table in memory is replaced before the file is
\* written
save_thresholds_eager(self_thresholds, file, new_thresholds, fault) ==
  LET document == json_dump(new_thresholds)
      cut == [state |-> "unparsable"]
  IN  IF fault = "mkdir"
        THEN Saved(new_thresholds, file, Raise("OSError", "mkdir"))
      ELSE IF fault = "open"
        THEN Saved(new_thresholds, file, Raise("OSError", "open"))
      ELSE IF document.kind # "ok" THEN Saved(new_thresholds, cut, document)
      ELSE IF fault = "write"
        THEN Saved(new_thresholds, cut, Raise("OSError", "write"))
      ELSE Saved(new_thresholds, [state |-> "parsed", table |-> document.val],
                 Ok("None"))

\* ColorAnalyzer.save_thresholds: fault is the step the file system refuses;
\* open(..., 'w') empties the file, so a dump that stops leaves no JSON
save_thresholds(self_thresholds, file, new_thresholds, fault) ==
  LET document == json_dump(new_thresholds)
      cut == [state |-> "unparsable"]
  IN  IF fault = "mkdir"
        THEN Saved(self_thresholds, file, Raise("OSError", "mkdir"))
      ELSE IF fault = "open"
        THEN Saved(self_thresholds, file, Raise("OSError", "open"))
      ELSE IF document.kind # "ok" THEN Saved(self_thresholds, cut, document)
      ELSE IF fault = "write"
        THEN Saved(self_thresholds, cut, Raise("OSError", "write"))
      ELSE Saved(new_thresholds, [state |-> "parsed", table |-> document.val],
                 Ok("None"))

\* ColorAnalyzer.__init__ on the path: the table _load_thresholds returns
LoadedTable(file) == json_load(_load_thresholds(file).val)

\* the tables handed to save_thresholds: complete or lacking a band, their
\* bounds lists, tuples or arrays
SavedTables ==
  { Typed(t, py) :
      t \in ThresholdTables
             \cup { Without(DEFAULT_COLOR_THRESHOLDS, b) : b \in Bands },
      py \in {"list", "tuple", "ndarray"} }

Faults == {"none", "mkdir", "open", "write"}

SaveInit ==
  /\ calibration \in CalibrationSources
  /\ analyzer = NoResult
  /\ colorStep = [op |-> "none"]
  /\ SizeIdle
  /\ ColorIdle
  /\ SymIdle
  /\ PriceIdle
  /\ LazyIdle
  /\ RecalIdle
  /\ SessionIdle
  /\ AppraiseIdle

\* ColorAnalyzer(calibration_path)
ConstructAnalyzer ==
  /\ analyzer.kind = "none"
  /\ analyzer' = Ok(LoadedTable(calibration))
  /\ UNCHANGED <<calibration, colorStep, notCalibVars>>

\* analyzer.save_thresholds(thresholds)
SaveThresholds ==
  /\ analyzer.kind = "ok"
  /\ colorStep.op = "none"
  /\ \E new_thresholds \in SavedTables, fault \in Faults :
       \E saved \in { save_thresholds(analyzer.val, calibration, new_thresholds,
                                      fault) } :
         /\ analyzer' = Ok(saved.thresholds)
         /\ calibration' = saved.file
         /\ colorStep' = [op |-> "save", before |-> analyzer.val,
                          given |-> new_thresholds, res |-> saved.res,
                          loaded |-> <<>>]
  /\ UNCHANGED notCalibVars

\* a ColorAnalyzer constructed afterwards from the same path
ConstructAfterwards ==
  /\ colorStep.op = "save"
  /\ colorStep' = [colorStep EXCEPT !.op = "reload",
                                    !.loaded = LoadedTable(calibration)]
  /\ UNCHANGED <<calibration, analyzer, notCalibVars>>

SaveNext ==
  \/ ConstructAnalyzer
  \/ SaveThresholds
  \/ ConstructAfterwards

SaveSpec == SaveInit /\ [][SaveNext]_vars

----------------------------------------------------------------------------
(* Properties of saving the calibration.                                   *)

\* the table as JSON holds it: every bound a list
AsLists(table) ==
  [b \in DOMAIN table |->
     [k \in DOMAIN table[b] |-> [py |-> "list", items |-> table[b][k].items]]]

SaveCalled == colorStep.op \in {"save", "reload"}

\* C30: save_thresholds replaces the table in memory as a whole and only
\* after persisting it: when persisting fails the table in memory is the one
\* before the call; when it succeeds the table in memory is the one given,
\* the file holds it, and a ColorAnalyzer constructed afterwards from the
\* same path loads the same table.
C30_SavedAfterPersisted ==
  SaveCalled =>
    /\ colorStep.res.kind # "ok" => analyzer.val = colorStep.before
    /\ colorStep.res.kind = "ok" =>
         /\ analyzer.val = colorStep.given
         /\ calibration.state = "parsed"
         /\ json_load(calibration.table) = AsLists(analyzer.val)
         /\ colorStep.op = "reload" =>
              /\ colorStep.loaded = AsLists(analyzer.val)
              /\ AsLists(colorStep.given) = colorStep.given
                   => colorStep.loaded = analyzer.val

\* the recalibrated table was saved where there was no file, and loaded
\* again
C30_Witness ==
  /\ colorStep.op = "reload"
  /\ colorStep.res.kind = "ok"
  /\ colorStep.before = Typed(DEFAULT_COLOR_THRESHOLDS, "list")
  /\ colorStep.given = Typed(RECALIBRATED_THRESHOLDS, "list")
  /\ colorStep.loaded = analyzer.val
  /\ analyzer.val # colorStep.before

====
